---- MODULE Spec2Model ----
(***************************************************************************)
(* Backtest core of BotMQL5: Trade (backtest/trade.py), Portfolio          *)
(* (backtest/portfolio.py) and the bar loop of Backtester                  *)
(* (backtest/backtester.py).                                               *)
(*                                                                         *)
(* Numbers.  The Python code computes in floats; the model computes the    *)
(* same expressions exactly, over integers, in these units:                *)
(*   price   1 unit = 1 pip (0.0001), so "(a - b) * 10000" is a - b        *)
(*   volume  1 unit = 0.005 lot, so the 0.01 lot minimum is 2 units and    *)
(*           half of it is 1 unit                                          *)
(*   money   1 unit = 0.00025 USD; then  pips * pip_value * volume_open    *)
(*           with pip_value = 0.0001 * volume * 100000 is                  *)
(*           pips * volume * volume_open  in model units                   *)
(*   percent values are kept as fractions [n, d] and compared by           *)
(*           cross-multiplication                                          *)
(*   time    1 unit = 1 hour since 00:00 of day 0                          *)
(***************************************************************************)
EXTENDS Integers, Sequences, FiniteSets, TLC

VARIABLES trades, pf, bt, bar, pc, call

vars == <<trades, pf, bt, bar, pc, call>>

\* Optional[...] = None for exit_time, exit_price and current_date
None == 0 - 1

Abs(x) == IF x < 0 THEN 0 - x ELSE x

----------------------------------------------------------------------------
(* Fractions for the percentages *)

Frac(n, d) == [n |-> n, d |-> d]

FracNorm(r) == IF r.d < 0 THEN [n |-> 0 - r.n, d |-> 0 - r.d] ELSE r

FracLT(a, b) == FracNorm(a).n * FracNorm(b).d < FracNorm(b).n * FracNorm(a).d

FracGE(a, b) == ~FracLT(a, b)

----------------------------------------------------------------------------
(* trade.py *)

TradeType == {"BUY", "SELL"}

TradeStatus == {"OPEN", "CLOSED", "PARTIAL_CLOSE"}

\* Trade(...) followed by __post_init__
NewTrade(ticket, symbol, trade_type, entry_time, entry_price, volume, stop_loss, take_profit_partial, take_profit_final, comment) ==
    [ticket |-> ticket, symbol |-> symbol, trade_type |-> trade_type,
     entry_time |-> entry_time, entry_price |-> entry_price,
     volume |-> volume, stop_loss |-> stop_loss,
     take_profit_partial |-> take_profit_partial,
     take_profit_final |-> take_profit_final,
     status |-> "OPEN", exit_time |-> None, exit_price |-> None,
     volume_open |-> volume, volume_closed |-> 0,
     profit |-> 0, profit_pips |-> 0, commission |-> 0, swap |-> 0,
     comment |-> comment,
     break_even_triggered |-> FALSE, partial_close_triggered |-> FALSE]

\* the pips of a price against the entry, by direction
TradePips(t, price) ==
    IF t.trade_type = "BUY" THEN price - t.entry_price
                            ELSE t.entry_price - price

update_profit(t, current_price, pip_value) ==
    IF t.status = "CLOSED" THEN t
    ELSE [t EXCEPT !.profit_pips = TradePips(t, current_price),
                   !.profit = TradePips(t, current_price) * pip_value * t.volume_open]

check_stop_loss(t, current_price) ==
    IF t.trade_type = "BUY" THEN current_price <= t.stop_loss
                            ELSE current_price >= t.stop_loss

\* check_take_profit_partial without the test of partial_close_triggered
check_take_profit_partial_again(t, current_price) ==
    IF t.trade_type = "BUY" THEN current_price >= t.take_profit_partial
                            ELSE current_price <= t.take_profit_partial

check_take_profit_partial(t, current_price) ==
    IF t.partial_close_triggered THEN FALSE
    ELSE IF t.trade_type = "BUY" THEN current_price >= t.take_profit_partial
                                 ELSE current_price <= t.take_profit_partial

check_take_profit_final(t, current_price) ==
    IF t.trade_type = "BUY" THEN current_price >= t.take_profit_final
                            ELSE current_price <= t.take_profit_final

\* percent is a fraction pct/100; the callers choose pct so that
\* volume_open * pct / 100 is a whole number of volume units
VolumeToClose(t, pct) == (t.volume_open * pct) \div 100

\* close_partial without the decrement of volume_open
close_partial_no_decrement(t, price, time, pip_value, pct) ==
    IF t.status = "CLOSED" THEN [t |-> t, ret |-> 0]
    ELSE LET volume_to_close == VolumeToClose(t, pct)
             partial_profit == TradePips(t, price) * pip_value * volume_to_close
         IN [t |-> [t EXCEPT !.volume_closed = @ + volume_to_close,
                             !.profit = @ + partial_profit,
                             !.partial_close_triggered = TRUE,
                             !.status = "PARTIAL_CLOSE"],
             ret |-> partial_profit]

close_partial(t, price, time, pip_value, pct) ==
    IF t.status = "CLOSED" THEN [t |-> t, ret |-> 0]
    ELSE LET volume_to_close == VolumeToClose(t, pct)
             partial_profit == TradePips(t, price) * pip_value * volume_to_close
         IN [t |-> [t EXCEPT !.volume_closed = @ + volume_to_close,
                             !.volume_open = @ - volume_to_close,
                             !.profit = @ + partial_profit,
                             !.partial_close_triggered = TRUE,
                             !.status = "PARTIAL_CLOSE"],
             ret |-> partial_profit]

move_to_break_even(t) ==
    IF ~t.break_even_triggered
    THEN [t EXCEPT !.stop_loss = t.entry_price, !.break_even_triggered = TRUE]
    ELSE t

\* close without the assignment of status
close_keeps_status(t, price, time, pip_value, reason) ==
    IF t.status = "CLOSED" THEN [t |-> t, ret |-> 0]
    ELSE LET final_profit == TradePips(t, price) * pip_value * t.volume_open
         IN [t |-> [t EXCEPT !.volume_closed = @ + t.volume_open,
                             !.volume_open = 0,
                             !.profit = @ + final_profit,
                             !.exit_time = time,
                             !.exit_price = price,
                             !.comment = reason],
             ret |-> final_profit]

\* close without the test of the CLOSED status
close_without_guard(t, price, time, pip_value, reason) ==
    LET final_profit == TradePips(t, price) * pip_value * t.volume_open
    IN [t |-> [t EXCEPT !.volume_closed = @ + t.volume_open,
                        !.volume_open = 0,
                        !.profit = @ + final_profit,
                        !.status = "CLOSED",
                        !.exit_time = time,
                        !.exit_price = price,
                        !.comment = reason],
        ret |-> final_profit]

close(t, price, time, pip_value, reason) ==
    IF t.status = "CLOSED" THEN [t |-> t, ret |-> 0]
    ELSE LET final_profit == TradePips(t, price) * pip_value * t.volume_open
         IN [t |-> [t EXCEPT !.volume_closed = @ + t.volume_open,
                             !.volume_open = 0,
                             !.profit = @ + final_profit,
                             !.status = "CLOSED",
                             !.exit_time = time,
                             !.exit_price = price,
                             !.comment = reason],
             ret |-> final_profit]

----------------------------------------------------------------------------
(* portfolio.py *)

Symbols == {"EURUSD", "USDJPY"}

\* Portfolio.__init__
NewPortfolio(initial_balance, leverage, commission_per_lot, spread_pips) ==
    [initial_balance |-> initial_balance, balance |-> initial_balance,
     equity |-> initial_balance, leverage |-> leverage,
     commission_per_lot |-> commission_per_lot, spread_pips |-> spread_pips,
     open_trades |-> <<>>, closed_trades |-> <<>>,
     total_trades |-> 0, winning_trades |-> 0, losing_trades |-> 0,
     gross_profit |-> 0, gross_loss |-> 0,
     peak_balance |-> initial_balance, max_drawdown |-> 0,
     max_drawdown_percent |-> Frac(0, 1),
     equity_curve |-> <<>>,
     daily_trades |-> 0, daily_profit |-> 0, current_date |-> None]

\* 0.01 * volume * 100000 against 0.0001 * volume * 100000, in model units
_get_pip_value(symbol, volume) ==
    IF symbol = "USDJPY" THEN 100 * volume ELSE volume

\* a pip value of 1 in the model is 0.0001 * 100000 USD a lot on 0.005 lot,
\* 0.05 USD, which is 200 money units
PipValueUnit == 200

\* "trade in self.open_trades": list membership is identity or dataclass
\* field equality
InTrades(ts, tid, lst) ==
    \E j \in 1..Len(lst) : lst[j] = tid \/ ts[lst[j]] = ts[tid]

\* list.remove(trade): drops the first element that is, or equals, the trade
RemoveFirst(ts, tid, lst) ==
    LET j == CHOOSE k \in 1..Len(lst) :
                 /\ (lst[k] = tid \/ ts[lst[k]] = ts[tid])
                 /\ \A m \in 1..(k - 1) : ~(lst[m] = tid \/ ts[lst[m]] = ts[tid])
    IN SubSeq(lst, 1, j - 1) \o SubSeq(lst, j + 1, Len(lst))

add_trade(p, ts, tid) ==
    LET commission == p.commission_per_lot * ts[tid].volume
    IN [pf |-> [p EXCEPT !.open_trades = Append(@, tid),
                         !.total_trades = @ + 1,
                         !.balance = @ - commission],
        trades |-> [ts EXCEPT ![tid].commission = @ + commission],
        raised |-> FALSE]

\* the loop of update_equity over open_trades[k..]: the trades with their
\* floating profit refreshed, and the sum of those profits
RECURSIVE UpdateFloating(_, _, _, _)
UpdateFloating(ts, open, k, prices) ==
    IF k > Len(open) THEN [trades |-> ts, floating_pl |-> 0]
    ELSE LET tid == open[k]
             t == ts[tid]
         IN IF t.symbol \in DOMAIN prices
            THEN LET t2 == update_profit(t, prices[t.symbol],
                                         _get_pip_value(t.symbol, t.volume))
                     rest == UpdateFloating([ts EXCEPT ![tid] = t2], open, k + 1, prices)
                 IN [trades |-> rest.trades,
                     floating_pl |-> rest.trades[tid].profit + rest.floating_pl]
            ELSE UpdateFloating(ts, open, k + 1, prices)

\* the drawdown block of update_equity, on the portfolio whose equity is set
UpdateDrawdown(p) ==
    LET peak == IF p.equity > p.peak_balance THEN p.equity ELSE p.peak_balance
        drawdown == peak - p.equity
        drawdown_percent == Frac(drawdown * 100, peak)
    IN IF drawdown > p.max_drawdown
       THEN [p EXCEPT !.peak_balance = peak,
                      !.max_drawdown = drawdown,
                      !.max_drawdown_percent = drawdown_percent]
       ELSE [p EXCEPT !.peak_balance = peak]

\* update_equity writing the new equity into balance as well
update_equity_to_balance(p, ts, current_time, prices) ==
    LET fl == UpdateFloating(ts, p.open_trades, 1, prices)
        p1 == [p EXCEPT !.equity = p.balance + fl.floating_pl,
                        !.balance = p.balance + fl.floating_pl]
        p2 == UpdateDrawdown(p1)
    IN [pf |-> [p2 EXCEPT !.equity_curve =
                    Append(@, [time |-> current_time, balance |-> p2.balance,
                               equity |-> p2.equity,
                               floating_pl |-> fl.floating_pl])],
        trades |-> fl.trades,
        raised |-> FALSE]

\* update_equity appending the record before equity is recomputed
update_equity_stale_record(p, ts, current_time, prices) ==
    LET fl == UpdateFloating(ts, p.open_trades, 1, prices)
        p1 == [p EXCEPT !.equity = p.balance + fl.floating_pl]
        p2 == UpdateDrawdown(p1)
    IN [pf |-> [p2 EXCEPT !.equity_curve =
                    Append(@, [time |-> current_time, balance |-> p.balance,
                               equity |-> p.equity,
                               floating_pl |-> fl.floating_pl])],
        trades |-> fl.trades,
        raised |-> FALSE]

update_equity(p, ts, current_time, prices) ==
    LET fl == UpdateFloating(ts, p.open_trades, 1, prices)
        p1 == [p EXCEPT !.equity = p.balance + fl.floating_pl]
        p2 == UpdateDrawdown(p1)
    IN [pf |-> [p2 EXCEPT !.equity_curve =
                    Append(@, [time |-> current_time, balance |-> p2.balance,
                               equity |-> p2.equity,
                               floating_pl |-> fl.floating_pl])],
        trades |-> fl.trades,
        raised |-> FALSE]

\* the win/loss counters of close_trade
CountResult(p, profit) ==
    IF profit > 0
    THEN [p EXCEPT !.winning_trades = @ + 1, !.gross_profit = @ + profit]
    ELSE [p EXCEPT !.losing_trades = @ + 1, !.gross_loss = @ + Abs(profit)]

\* close_trade leaving the trade in open_trades
close_trade_keeps_open(p, ts, tid, price, time, reason) ==
    IF ~InTrades(ts, tid, p.open_trades)
    THEN [pf |-> p, trades |-> ts, raised |-> FALSE]
    ELSE LET r == close(ts[tid], price, time,
                        _get_pip_value(ts[tid].symbol, ts[tid].volume), reason)
             commission == p.commission_per_lot * r.t.volume_closed
             profit == r.ret - commission
             ts2 == [ts EXCEPT ![tid] = [r.t EXCEPT !.commission = @ + commission]]
             p2 == CountResult([p EXCEPT !.balance = @ + profit], profit)
         IN [pf |-> [p2 EXCEPT !.closed_trades = Append(@, tid),
                                !.daily_trades = @ + 1,
                                !.daily_profit = @ + profit],
             trades |-> ts2, raised |-> FALSE]

close_trade(p, ts, tid, price, time, reason) ==
    IF ~InTrades(ts, tid, p.open_trades)
    THEN [pf |-> p, trades |-> ts, raised |-> FALSE]
    ELSE LET r == close(ts[tid], price, time,
                        _get_pip_value(ts[tid].symbol, ts[tid].volume), reason)
             commission == p.commission_per_lot * r.t.volume_closed
             profit == r.ret - commission
             ts2 == [ts EXCEPT ![tid] = [r.t EXCEPT !.commission = @ + commission]]
             p2 == CountResult([p EXCEPT !.balance = @ + profit], profit)
         IN IF ~InTrades(ts2, tid, p2.open_trades)
            \* open_trades.remove raises ValueError: what was done stays done
            THEN [pf |-> p2, trades |-> ts2, raised |-> TRUE]
            ELSE [pf |-> [p2 EXCEPT !.open_trades = RemoveFirst(ts2, tid, @),
                                     !.closed_trades = Append(@, tid),
                                     !.daily_trades = @ + 1,
                                     !.daily_profit = @ + profit],
                  trades |-> ts2, raised |-> FALSE]

\* percent is pct/100; trade.volume * percent is exact for the pct used
partial_close_trade(p, ts, tid, price, time, pct) ==
    IF ~InTrades(ts, tid, p.open_trades)
    THEN [pf |-> p, trades |-> ts, raised |-> FALSE]
    ELSE LET r == close_partial(ts[tid], price, time,
                                _get_pip_value(ts[tid].symbol, ts[tid].volume), pct)
             volume_closed == (ts[tid].volume * pct) \div 100
             commission == p.commission_per_lot * volume_closed
             profit == r.ret - commission
             t2 == [r.t EXCEPT !.commission = @ + commission]
         IN [pf |-> [p EXCEPT !.balance = @ + profit],
             trades |-> [ts EXCEPT ![tid] = move_to_break_even(t2)],
             raised |-> FALSE]

\* reset_daily_stats leaving the trade counter as it is
reset_daily_stats_keeps_trades(p) == [p EXCEPT !.daily_profit = 0]

reset_daily_stats(p) == [p EXCEPT !.daily_trades = 0, !.daily_profit = 0]

\* max_loss_percent is a fraction; balance 0 makes Python raise
\* ZeroDivisionError, which the callers in this model exclude
check_daily_limits(p, max_trades, max_loss_percent) ==
    IF p.daily_trades >= max_trades THEN FALSE
    ELSE LET loss_percent == Frac(Abs(p.daily_profit) * 100, p.balance)
         IN IF p.daily_profit < 0 /\ FracGE(loss_percent, max_loss_percent)
            THEN FALSE
            ELSE TRUE

check_global_drawdown(p, max_drawdown_percent) ==
    FracLT(p.max_drawdown_percent, max_drawdown_percent)

\* close_all_trades: close_trade over a copy of open_trades, from index k
RECURSIVE CloseAllFrom(_, _, _, _, _, _, _)
CloseAllFrom(p, ts, lst, k, price, time, reason) ==
    IF k > Len(lst) THEN [pf |-> p, trades |-> ts, raised |-> FALSE]
    ELSE LET r == close_trade(p, ts, lst[k], price, time, reason)
         IN IF r.raised THEN r
            ELSE CloseAllFrom(r.pf, r.trades, lst, k + 1, price, time, reason)

\* close_all_trades taking its copy from closed_trades
close_all_trades_of_closed(p, ts, price, time, reason) ==
    CloseAllFrom(p, ts, p.closed_trades, 1, price, time, reason)

close_all_trades(p, ts, price, time, reason) ==
    CloseAllFrom(p, ts, p.open_trades, 1, price, time, reason)

\* get_statistics dividing without the tests of total_closed; a fraction
\* with d = 0 stands for the ZeroDivisionError
get_statistics_unguarded(p) ==
    LET total_closed == Len(p.closed_trades)
        net_profit == p.balance - p.initial_balance
    IN [initial_balance |-> p.initial_balance,
        final_balance |-> p.balance,
        final_equity |-> p.equity,
        net_profit |-> net_profit,
        net_profit_percent |-> Frac(net_profit * 100, p.initial_balance),
        total_trades |-> total_closed,
        winning_trades |-> p.winning_trades,
        losing_trades |-> p.losing_trades,
        win_rate |-> Frac(p.winning_trades * 100, total_closed),
        gross_profit |-> p.gross_profit,
        gross_loss |-> p.gross_loss,
        profit_factor |-> IF p.gross_loss # 0
                          THEN Frac(p.gross_profit, Abs(p.gross_loss))
                          ELSE Frac(0, 1),
        expectancy |-> Frac(net_profit, total_closed),
        max_drawdown |-> p.max_drawdown,
        max_drawdown_percent |-> p.max_drawdown_percent,
        open_trades |-> Len(p.open_trades)]

\* the fractions of get_statistics are kept as [n, d]; 0.0 is 0/1
get_statistics(p) ==
    LET total_closed == Len(p.closed_trades)
        net_profit == p.balance - p.initial_balance
    IN [initial_balance |-> p.initial_balance,
        final_balance |-> p.balance,
        final_equity |-> p.equity,
        net_profit |-> net_profit,
        net_profit_percent |-> Frac(net_profit * 100, p.initial_balance),
        total_trades |-> total_closed,
        winning_trades |-> p.winning_trades,
        losing_trades |-> p.losing_trades,
        win_rate |-> IF total_closed > 0
                     THEN Frac(p.winning_trades * 100, total_closed)
                     ELSE Frac(0, 1),
        gross_profit |-> p.gross_profit,
        gross_loss |-> p.gross_loss,
        profit_factor |-> IF p.gross_loss # 0
                          THEN Frac(p.gross_profit, Abs(p.gross_loss))
                          ELSE Frac(0, 1),
        expectancy |-> IF total_closed > 0
                       THEN Frac(net_profit, total_closed)
                       ELSE Frac(0, 1),
        max_drawdown |-> p.max_drawdown,
        max_drawdown_percent |-> p.max_drawdown_percent,
        open_trades |-> Len(p.open_trades)]

----------------------------------------------------------------------------
(* statistics.py: Statistics(trades, equity_curve), with trades given as    *)
(* the Trade objects ts and the list lst of their identities.  Of the       *)
(* metrics of calculate_all the model keeps the counts, the profit sums and *)
(* quotients and the two maximum drawdowns; the averages, the ratios of     *)
(* averages, the durations and the moments are left out.                    *)

_empty_stats ==
    [total_trades |-> 0, winning_trades |-> 0, losing_trades |-> 0,
     win_rate |-> Frac(0, 1), net_profit |-> 0, gross_profit |-> 0,
     gross_loss |-> 0, profit_factor |-> Frac(0, 1),
     expectancy |-> Frac(0, 1), max_drawdown |-> 0,
     max_drawdown_percent |-> Frac(0, 1)]

\* sum(1 for t in trades if sign(t.profit) = sgn), over lst[1..k]
RECURSIVE CountProfits(_, _, _, _)
CountProfits(ts, lst, k, sgn) ==
    IF k = 0 THEN 0
    ELSE CountProfits(ts, lst, k - 1, sgn) +
         (IF (sgn > 0 /\ ts[lst[k]].profit > 0) \/ (sgn < 0 /\ ts[lst[k]].profit < 0)
             \/ (sgn = 0 /\ ts[lst[k]].profit = 0)
          THEN 1 ELSE 0)

\* sum(p for p in profits if sign(p) = sgn), or of all when sgn = 0
RECURSIVE SumProfits(_, _, _, _)
SumProfits(ts, lst, k, sgn) ==
    IF k = 0 THEN 0
    ELSE SumProfits(ts, lst, k - 1, sgn) +
         (IF sgn = 0 \/ (sgn > 0 /\ ts[lst[k]].profit > 0)
             \/ (sgn < 0 /\ ts[lst[k]].profit < 0)
          THEN ts[lst[k]].profit ELSE 0)

_basic_stats(ts, lst) ==
    LET total == Len(lst)
        winners == CountProfits(ts, lst, total, 1)
    IN [total_trades |-> total,
        winning_trades |-> winners,
        losing_trades |-> CountProfits(ts, lst, total, 0 - 1),
        breakeven_trades |-> CountProfits(ts, lst, total, 0),
        win_rate |-> IF total > 0 THEN Frac(winners * 100, total) ELSE Frac(0, 1)]

_profit_stats(ts, lst) ==
    LET net_profit == SumProfits(ts, lst, Len(lst), 0)
        gross_profit == SumProfits(ts, lst, Len(lst), 1)
        gross_loss == Abs(SumProfits(ts, lst, Len(lst), 0 - 1))
    IN [net_profit |-> net_profit,
        gross_profit |-> gross_profit,
        gross_loss |-> gross_loss,
        profit_factor |-> IF gross_loss > 0 THEN Frac(gross_profit, gross_loss)
                          ELSE Frac(0, 1),
        expectancy |-> IF Len(lst) > 0 THEN Frac(net_profit, Len(lst))
                       ELSE Frac(0, 1)]

\* a / b < c / d for a, c >= 0 and b, d > 0, by whole parts and remainders
\* (the products of a cross-multiplication do not fit the model's integers)
RECURSIVE RatioLT(_, _, _, _)
RatioLT(a, b, c, d) ==
    IF a \div b # c \div d THEN a \div b < c \div d
    ELSE IF c % d = 0 THEN FALSE
    ELSE IF a % b = 0 THEN TRUE
    ELSE RatioLT(d, c % d, b, a % b)

\* df["equity"].cummax() at row k
RECURSIVE CumMax(_, _)
CumMax(curve, k) ==
    IF k = 1 THEN curve[1].equity
    ELSE LET m == CumMax(curve, k - 1)
         IN IF curve[k].equity > m THEN curve[k].equity ELSE m

\* the maxima of df["drawdown"] and df["drawdown_pct"] over rows 1..k
RECURSIVE MaxDrawdowns(_, _)
MaxDrawdowns(curve, k) ==
    LET peak == CumMax(curve, k)
        drawdown == peak - curve[k].equity
    IN IF k = 1 THEN [max_dd |-> drawdown, dd |-> drawdown, peak |-> peak]
       ELSE LET rest == MaxDrawdowns(curve, k - 1)
            IN [max_dd |-> IF drawdown > rest.max_dd THEN drawdown ELSE rest.max_dd,
                dd |-> IF RatioLT(rest.dd, rest.peak, drawdown, peak)
                       THEN drawdown ELSE rest.dd,
                peak |-> IF RatioLT(rest.dd, rest.peak, drawdown, peak)
                         THEN peak ELSE rest.peak]

\* _drawdown_stats measuring every drawdown from the first record's equity
_drawdown_stats_from_start(curve) ==
    IF Len(curve) = 0
    THEN [max_drawdown |-> 0, max_drawdown_percent |-> Frac(0, 1)]
    ELSE LET dds == {curve[1].equity - curve[k].equity : k \in 1..Len(curve)}
             max_dd == CHOOSE x \in dds : \A y \in dds : y <= x
         IN [max_drawdown |-> max_dd,
             max_drawdown_percent |-> Frac(max_dd * 100, curve[1].equity)]

_drawdown_stats(curve) ==
    IF Len(curve) = 0
    THEN [max_drawdown |-> 0, max_drawdown_percent |-> Frac(0, 1)]
    ELSE LET m == MaxDrawdowns(curve, Len(curve))
         IN [max_drawdown |-> m.max_dd,
             max_drawdown_percent |-> Frac(m.dd * 100, m.peak)]

calculate_all(ts, lst, curve) ==
    IF Len(lst) = 0 THEN _empty_stats
    ELSE LET b == _basic_stats(ts, lst)
             p == _profit_stats(ts, lst)
             d == _drawdown_stats(curve)
         IN [total_trades |-> b.total_trades, winning_trades |-> b.winning_trades,
             losing_trades |-> b.losing_trades,
             breakeven_trades |-> b.breakeven_trades, win_rate |-> b.win_rate,
             net_profit |-> p.net_profit, gross_profit |-> p.gross_profit,
             gross_loss |-> p.gross_loss, profit_factor |-> p.profit_factor,
             expectancy |-> p.expectancy, max_drawdown |-> d.max_drawdown,
             max_drawdown_percent |-> d.max_drawdown_percent]

\* the loop of calculate_consecutive_stats over lst[1..k]
RECURSIVE Streaks(_, _, _)
Streaks(ts, lst, k) ==
    IF k = 0 THEN [current_wins |-> 0, current_losses |-> 0,
                   max_wins |-> 0, max_losses |-> 0]
    ELSE LET s == Streaks(ts, lst, k - 1)
             profit == ts[lst[k]].profit
         IN IF profit > 0
            THEN [current_wins |-> s.current_wins + 1, current_losses |-> 0,
                  max_wins |-> IF s.current_wins + 1 > s.max_wins
                               THEN s.current_wins + 1 ELSE s.max_wins,
                  max_losses |-> s.max_losses]
            ELSE IF profit < 0
            THEN [current_wins |-> 0, current_losses |-> s.current_losses + 1,
                  max_wins |-> s.max_wins,
                  max_losses |-> IF s.current_losses + 1 > s.max_losses
                                 THEN s.current_losses + 1 ELSE s.max_losses]
            ELSE [s EXCEPT !.current_wins = 0, !.current_losses = 0]

calculate_consecutive_stats(ts, lst) ==
    IF Len(lst) = 0
    THEN [max_consecutive_wins |-> 0, max_consecutive_losses |-> 0,
          current_streak |-> 0]
    ELSE LET s == Streaks(ts, lst, Len(lst))
             last_profit == ts[lst[Len(lst)]].profit
         IN [max_consecutive_wins |-> s.max_wins,
             max_consecutive_losses |-> s.max_losses,
             current_streak |-> IF last_profit > 0 THEN s.current_wins
                                ELSE IF last_profit < 0 THEN 0 - s.current_losses
                                ELSE 0]

----------------------------------------------------------------------------
(* backtester.py *)

SignalType == {"NONE", "BUY", "SELL"}

\* Backtester.__init__: the parameters kept as fields, ticket_counter and
\* current_date; idx and data describe the M1 data being replayed
NewBacktester(cfg, data) ==
    [symbol |-> cfg.symbol,
     risk_per_trade |-> cfg.risk_per_trade,
     max_drawdown_percent |-> cfg.max_drawdown_percent,
     max_daily_drawdown_percent |-> cfg.max_daily_drawdown_percent,
     max_daily_trades |-> cfg.max_daily_trades,
     stop_loss_pips |-> cfg.stop_loss_pips,
     rr_partial |-> cfg.rr_partial,
     rr_final |-> cfg.rr_final,
     partial_close_percent |-> cfg.partial_close_percent,
     spread_pips |-> cfg.spread_pips,
     london_start |-> cfg.london_start, london_end |-> cfg.london_end,
     ny_start |-> cfg.ny_start, ny_end |-> cfg.ny_end,
     ticket_counter |-> 1, current_date |-> None,
     idx |-> 0, data |-> data]

\* current_time.date() and current_time.time(), with time in hours
DateOf(time) == time \div 24

HourOf(time) == time % 24

\* round(n / d) for d > 0, ties to the even neighbour
RoundHalfEven(n, d) ==
    LET q == n \div d
        r == n % d
    IN IF 2 * r < d THEN q
       ELSE IF 2 * r > d THEN q + 1
       ELSE IF q % 2 = 0 THEN q ELSE q + 1

\* risk_amount / (sl_distance_pips * 10.0), rounded to 0.01 lot and raised
\* to 0.01 lot; in model units balance * risk / (40000 * pips) hundredths
\* of a lot, and a hundredth of a lot is 2 volume units
\* _calculate_lot_size without the floor of 0.01 lot
_calculate_lot_size_no_minimum(b, p, entry_price, stop_loss) ==
    LET sl_distance_pips == Abs(entry_price - stop_loss)
    IN IF sl_distance_pips = 0 THEN 2
       ELSE 2 * RoundHalfEven(p.balance * b.risk_per_trade, 40000 * sl_distance_pips)

_calculate_lot_size(b, p, entry_price, stop_loss) ==
    LET sl_distance_pips == Abs(entry_price - stop_loss)
    IN IF sl_distance_pips = 0 THEN 2
       ELSE LET hundredths == RoundHalfEven(p.balance * b.risk_per_trade,
                                            40000 * sl_distance_pips)
            IN 2 * (IF hundredths < 1 THEN 1 ELSE hundredths)

\* the body of the loop of _manage_open_positions with the stop-loss and
\* the final take-profit in the other order
ManageChecksFinalFirst(t, high, low) ==
    IF check_take_profit_final(t, IF t.trade_type = "BUY" THEN high ELSE low)
    THEN [kind |-> "close", price |-> t.take_profit_final,
          reason |-> "Take Profit Final"]
    ELSE IF check_stop_loss(t, IF t.trade_type = "BUY" THEN low ELSE high)
    THEN [kind |-> "close", price |-> t.stop_loss, reason |-> "Stop Loss"]
    ELSE IF check_take_profit_partial(t, IF t.trade_type = "BUY" THEN high ELSE low)
    THEN [kind |-> "partial", price |-> t.take_profit_partial, reason |-> ""]
    ELSE [kind |-> "none", price |-> None, reason |-> ""]

\* the body of the loop of _manage_open_positions closing a stopped trade at
\* the price that touched the stop
ManageChecksAtTouch(t, high, low) ==
    IF check_stop_loss(t, IF t.trade_type = "BUY" THEN low ELSE high)
    THEN [kind |-> "close", price |-> IF t.trade_type = "BUY" THEN low ELSE high,
          reason |-> "Stop Loss"]
    ELSE IF check_take_profit_final(t, IF t.trade_type = "BUY" THEN high ELSE low)
    THEN [kind |-> "close", price |-> t.take_profit_final,
          reason |-> "Take Profit Final"]
    ELSE IF check_take_profit_partial(t, IF t.trade_type = "BUY" THEN high ELSE low)
    THEN [kind |-> "partial", price |-> t.take_profit_partial, reason |-> ""]
    ELSE [kind |-> "none", price |-> None, reason |-> ""]

\* the body of the loop of _manage_open_positions for one trade: what it
\* schedules, with the two "continue"
ManageChecks(t, high, low) ==
    IF check_stop_loss(t, IF t.trade_type = "BUY" THEN low ELSE high)
    THEN [kind |-> "close", price |-> t.stop_loss, reason |-> "Stop Loss"]
    ELSE IF check_take_profit_final(t, IF t.trade_type = "BUY" THEN high ELSE low)
    THEN [kind |-> "close", price |-> t.take_profit_final,
          reason |-> "Take Profit Final"]
    ELSE IF check_take_profit_partial(t, IF t.trade_type = "BUY" THEN high ELSE low)
    THEN [kind |-> "partial", price |-> t.take_profit_partial, reason |-> ""]
    ELSE [kind |-> "none", price |-> None, reason |-> ""]

\* the scan of _manage_open_positions over open_trades[k..]: the closes and
\* the partial closes it schedules
RECURSIVE ManageScan(_, _, _, _, _)
ManageScan(ts, open, k, high, low) ==
    IF k > Len(open) THEN [to_close |-> <<>>, to_partial |-> <<>>]
    ELSE LET tid == open[k]
             d == ManageChecks(ts[tid], high, low)
             rest == ManageScan(ts, open, k + 1, high, low)
         IN IF d.kind = "close"
            THEN [rest EXCEPT !.to_close =
                     <<[tid |-> tid, price |-> d.price, reason |-> d.reason]>> \o @]
            ELSE IF d.kind = "partial"
            THEN [rest EXCEPT !.to_partial = <<[tid |-> tid, price |-> d.price]>> \o @]
            ELSE rest

\* "for trade, price in trades_to_partial_close", from index k
RECURSIVE ExecutePartials(_, _, _, _, _, _)
ExecutePartials(p, ts, lst, k, time, pct) ==
    IF k > Len(lst) THEN [pf |-> p, trades |-> ts, raised |-> FALSE]
    ELSE LET r == partial_close_trade(p, ts, lst[k].tid, lst[k].price, time, pct)
         IN ExecutePartials(r.pf, r.trades, lst, k + 1, time, pct)

\* "for trade, price, reason in trades_to_close", from index k
RECURSIVE ExecuteCloses(_, _, _, _, _)
ExecuteCloses(p, ts, lst, k, time) ==
    IF k > Len(lst) THEN [pf |-> p, trades |-> ts, raised |-> FALSE]
    ELSE LET r == close_trade(p, ts, lst[k].tid, lst[k].price, time, lst[k].reason)
         IN IF r.raised THEN r
            ELSE ExecuteCloses(r.pf, r.trades, lst, k + 1, time)

\* _manage_open_positions behind the tests of _check_limits: a bar that the
\* limits refuse is not managed
_manage_open_positions_after_limits(b, p, ts, row, current_time) ==
    IF \/ ~check_daily_limits(p, b.max_daily_trades, b.max_daily_drawdown_percent)
       \/ ~check_global_drawdown(p, b.max_drawdown_percent)
       \/ Len(p.open_trades) >= 1
    THEN [pf |-> p, trades |-> ts, raised |-> FALSE]
    ELSE LET scan == ManageScan(ts, p.open_trades, 1, row.high, row.low)
             r1 == ExecutePartials(p, ts, scan.to_partial, 1, current_time,
                                   b.partial_close_percent)
         IN ExecuteCloses(r1.pf, r1.trades, scan.to_close, 1, current_time)

\* _manage_open_positions testing the trades once more after the partial
\* closes, against the stops these have moved
_manage_open_positions_rechecks(b, p, ts, row, current_time) ==
    LET scan == ManageScan(ts, p.open_trades, 1, row.high, row.low)
        r1 == ExecutePartials(p, ts, scan.to_partial, 1, current_time,
                              b.partial_close_percent)
        r2 == ExecuteCloses(r1.pf, r1.trades, scan.to_close, 1, current_time)
        again == ManageScan(r2.trades, r2.pf.open_trades, 1, row.high, row.low)
    IN IF r2.raised THEN r2
       ELSE ExecuteCloses(r2.pf, r2.trades, again.to_close, 1, current_time)

_manage_open_positions(b, p, ts, row, current_time) ==
    LET scan == ManageScan(ts, p.open_trades, 1, row.high, row.low)
        r1 == ExecutePartials(p, ts, scan.to_partial, 1, current_time,
                              b.partial_close_percent)
    IN ExecuteCloses(r1.pf, r1.trades, scan.to_close, 1, current_time)

\* the Trade that _open_trade builds for a BUY or SELL signal
OpenedTrade(b, p, signal, row, current_time) ==
    LET entry_price == IF signal = "BUY" THEN row.close + b.spread_pips
                                         ELSE row.close
        sl_distance == b.stop_loss_pips
        stop_loss == IF signal = "BUY" THEN entry_price - sl_distance
                                       ELSE entry_price + sl_distance
        take_profit_partial ==
            IF signal = "BUY" THEN entry_price + sl_distance * b.rr_partial
                              ELSE entry_price - sl_distance * b.rr_partial
        take_profit_final ==
            IF signal = "BUY" THEN entry_price + sl_distance * b.rr_final
                              ELSE entry_price - sl_distance * b.rr_final
        volume == _calculate_lot_size(b, p, entry_price, stop_loss)
    IN NewTrade(b.ticket_counter, b.symbol, signal, current_time, entry_price,
                volume, stop_loss, take_profit_partial, take_profit_final,
                IF signal = "BUY" THEN "Signal: BUY" ELSE "Signal: SELL")

\* _open_trade leaving ticket_counter as it is
_open_trade_keeps_counter(b, p, ts, signal, row, current_time) ==
    LET t == OpenedTrade(b, p, signal, row, current_time)
    IN IF t.volume <= 0
       THEN [bt |-> b, pf |-> p, trades |-> ts]
       ELSE LET r == add_trade(p, Append(ts, t), Len(ts) + 1)
            IN [bt |-> b, pf |-> r.pf, trades |-> r.trades]

_open_trade(b, p, ts, signal, row, current_time) ==
    LET t == OpenedTrade(b, p, signal, row, current_time)
    IN IF t.volume <= 0
       THEN [bt |-> b, pf |-> p, trades |-> ts]
       ELSE LET r == add_trade(p, Append(ts, t), Len(ts) + 1)
            IN [bt |-> [b EXCEPT !.ticket_counter = @ + 1],
                pf |-> r.pf, trades |-> r.trades]

\* _check_limits without the test of the open position
_check_limits_no_position_gate(b, p) ==
    IF ~check_daily_limits(p, b.max_daily_trades, b.max_daily_drawdown_percent)
    THEN FALSE
    ELSE IF ~check_global_drawdown(p, b.max_drawdown_percent)
    THEN FALSE
    ELSE TRUE

_check_limits(b, p) ==
    IF ~check_daily_limits(p, b.max_daily_trades, b.max_daily_drawdown_percent)
    THEN FALSE
    ELSE IF ~check_global_drawdown(p, b.max_drawdown_percent)
    THEN FALSE
    ELSE IF Len(p.open_trades) >= 1
    THEN FALSE
    ELSE TRUE

\* _is_trading_session with the end hours inside the sessions
_is_trading_session_closed_end(b, current_time) ==
    LET current_hour == HourOf(current_time)
        in_london == b.london_start <= current_hour /\ current_hour <= b.london_end
        in_ny == b.ny_start <= current_hour /\ current_hour <= b.ny_end
    IN in_london \/ in_ny

_is_trading_session(b, current_time) ==
    LET current_hour == HourOf(current_time)
        in_london == b.london_start <= current_hour /\ current_hour < b.london_end
        in_ny == b.ny_start <= current_hour /\ current_hour < b.ny_end
    IN in_london \/ in_ny

----------------------------------------------------------------------------
(* signal_engine_bt.py                                                     *)
(* The indicator values are floats; the model keeps them as integers (EMA, *)
(* VWAP and ATR in pips, RSI and the stochastic in points) with NaN as a   *)
(* value of its own.  The VWAP is a quotient and is kept as a fraction     *)
(* [n, d]; 0/0, which numpy evaluates to NaN, is the fraction with d = 0.  *)

\* numpy.nan, for the indicators kept as integers
NaN == 0 - 1000

\* pd.isna
IsNaN(x) == x = NaN

\* the float comparisons: False when an operand is NaN
FloatGT(a, b) == ~IsNaN(a) /\ ~IsNaN(b) /\ a > b

FloatLT(a, b) == ~IsNaN(a) /\ ~IsNaN(b) /\ a < b

FloatGE(a, b) == ~IsNaN(a) /\ ~IsNaN(b) /\ a >= b

FloatLE(a, b) == ~IsNaN(a) /\ ~IsNaN(b) /\ a <= b

\* pd.isna, and the comparisons of a price with a VWAP, which is n/d
VwapIsNaN(v) == v.d = 0

PriceGTVwap(price, v) == ~VwapIsNaN(v) /\ price * v.d > v.n

PriceLTVwap(price, v) == ~VwapIsNaN(v) /\ price * v.d < v.n

\* SignalEngineBT.__init__ with its defaults; min_atr 0.0003 is 3 pips
NewSignalEngineBT ==
    [ema_fast |-> 9, ema_slow |-> 21, rsi_period |-> 14,
     stoch_k |-> 5, stoch_d |-> 3, stoch_slowing |-> 3, atr_period |-> 14,
     min_atr |-> 3,
     rsi_buy_min |-> 40, rsi_buy_max |-> 70,
     rsi_sell_min |-> 30, rsi_sell_max |-> 60,
     stoch_oversold |-> 20, stoch_overbought |-> 80]

\* the sums of _add_vwap over the rows of df[1..k] that have the date of
\* row k: typical_price * volume (times 3) and volume
RECURSIVE VwapSums(_, _, _)
VwapSums(df, k, j) ==
    IF j = 0 THEN [tpv |-> 0, vol |-> 0]
    ELSE LET rest == VwapSums(df, k, j - 1)
         IN IF DateOf(df[j].time) = DateOf(df[k].time)
            THEN [tpv |-> rest.tpv + (df[j].high + df[j].low + df[j].close) * df[j].volume,
                  vol |-> rest.vol + df[j].volume]
            ELSE rest

\* _add_vwap on a frame with a "time" column: the cumulative sum of
\* typical_price * volume over the cumulative sum of volume, by date
_add_vwap(df) ==
    [k \in 1..Len(df) |->
        LET s == VwapSums(df, k, k)
        IN [df[k] EXCEPT !.vwap = IF s.vol = 0 THEN Frac(0, 0)
                                   ELSE Frac(s.tpv, 3 * s.vol)]]

\* data[data["time"] <= current_time] keeping every row
UpToAnyTime(data, current_time) == data

\* data[data["time"] <= current_time]
UpTo(data, current_time) ==
    SelectSeq(data, LAMBDA row : row.time <= current_time)

\* _analyze_m15_trend calling a tie of the two EMAs a bullish trend
_analyze_m15_trend_tie_bullish(m15) ==
    IF FloatGE(m15.ema_fast, m15.ema_slow) THEN "BULLISH"
    ELSE IF FloatLT(m15.ema_fast, m15.ema_slow) THEN "BEARISH"
    ELSE "NEUTRAL"

_analyze_m15_trend(m15) ==
    IF FloatGT(m15.ema_fast, m15.ema_slow) THEN "BULLISH"
    ELSE IF FloatLT(m15.ema_fast, m15.ema_slow) THEN "BEARISH"
    ELSE "NEUTRAL"

\* _analyze_m5_confirmation without the comparison of the price with the VWAP
_analyze_m5_confirmation_no_vwap(e, m5, trend) ==
    IF /\ trend = "BULLISH"
       /\ FloatGT(m5.ema_fast, m5.ema_slow)
       /\ FloatLE(e.rsi_buy_min, m5.rsi) /\ FloatLE(m5.rsi, e.rsi_buy_max)
    THEN "BUY"
    ELSE IF /\ trend = "BEARISH"
            /\ FloatLT(m5.ema_fast, m5.ema_slow)
            /\ FloatLE(e.rsi_sell_min, m5.rsi) /\ FloatLE(m5.rsi, e.rsi_sell_max)
    THEN "SELL"
    ELSE "NONE"

_analyze_m5_confirmation(e, m5, trend) ==
    IF /\ trend = "BULLISH"
       /\ FloatGT(m5.ema_fast, m5.ema_slow)
       /\ PriceGTVwap(m5.close, m5.vwap)
       /\ FloatLE(e.rsi_buy_min, m5.rsi) /\ FloatLE(m5.rsi, e.rsi_buy_max)
    THEN "BUY"
    ELSE IF /\ trend = "BEARISH"
            /\ FloatLT(m5.ema_fast, m5.ema_slow)
            /\ PriceLTVwap(m5.close, m5.vwap)
            /\ FloatLE(e.rsi_sell_min, m5.rsi) /\ FloatLE(m5.rsi, e.rsi_sell_max)
    THEN "SELL"
    ELSE "NONE"

_analyze_m1_entry(e, m1_current, m1_previous) ==
    IF /\ FloatLE(m1_previous.stoch_k, e.stoch_oversold)
       /\ FloatGT(m1_current.stoch_k, m1_current.stoch_d)
       /\ FloatLE(m1_previous.stoch_k, m1_previous.stoch_d)
    THEN "BUY"
    ELSE IF /\ FloatGE(m1_previous.stoch_k, e.stoch_overbought)
            /\ FloatLT(m1_current.stoch_k, m1_current.stoch_d)
            /\ FloatGE(m1_previous.stoch_k, m1_previous.stoch_d)
    THEN "SELL"
    ELSE "NONE"

_indicators_valid(m1, m5, m15) ==
    IF IsNaN(m15.ema_fast) \/ IsNaN(m15.ema_slow) THEN FALSE
    ELSE IF \/ IsNaN(m5.ema_fast) \/ IsNaN(m5.ema_slow)
            \/ IsNaN(m5.rsi) \/ VwapIsNaN(m5.vwap)
    THEN FALSE
    ELSE IF IsNaN(m1.stoch_k) \/ IsNaN(m1.stoch_d) \/ IsNaN(m1.atr) THEN FALSE
    ELSE TRUE

\* the empty details dict
NoDetails == [empty |-> TRUE]

\* what get_signal returns when it returns early
NoSignal(e, data_m1, data_m5, data_m15) ==
    [signal |-> "NONE", details |-> NoDetails, engine |-> e,
     data_m1 |-> data_m1, data_m5 |-> data_m5, data_m15 |-> data_m15]

\* get_signal raising min_atr to the ATR of a bar on which it signals
get_signal_adapting(e, current_time, data_m1, data_m5, data_m15) ==
    LET m1 == UpTo(data_m1, current_time)
        m5 == UpTo(data_m5, current_time)
        m15 == UpTo(data_m15, current_time)
    IN IF Len(m1) = 0 \/ Len(m5) = 0 \/ Len(m15) = 0 \/ Len(m1) < 2
       THEN NoSignal(e, data_m1, data_m5, data_m15)
       ELSE LET m1_current == m1[Len(m1)]
                m5_current == m5[Len(m5)]
                m15_current == m15[Len(m15)]
                m1_previous == m1[Len(m1) - 1]
            IN IF ~_indicators_valid(m1_current, m5_current, m15_current)
               THEN NoSignal(e, data_m1, data_m5, data_m15)
               ELSE LET m15_trend == _analyze_m15_trend(m15_current)
                        m5_confirmation == _analyze_m5_confirmation(e, m5_current, m15_trend)
                        m1_entry == _analyze_m1_entry(e, m1_current, m1_previous)
                        details == [m15_trend |-> m15_trend,
                                    m5_confirmation |-> m5_confirmation,
                                    m1_entry |-> m1_entry,
                                    atr |-> m1_current.atr,
                                    price |-> m1_current.close,
                                    m15_ema_fast |-> m15_current.ema_fast,
                                    m15_ema_slow |-> m15_current.ema_slow,
                                    m5_rsi |-> m5_current.rsi,
                                    m5_vwap |-> m5_current.vwap,
                                    m1_stoch_k |-> m1_current.stoch_k,
                                    m1_stoch_d |-> m1_current.stoch_d]
                        signal == IF /\ m15_trend = "BULLISH"
                                     /\ m5_confirmation = "BUY"
                                     /\ m1_entry = "BUY"
                                     /\ FloatGE(m1_current.atr, e.min_atr)
                                  THEN "BUY"
                                  ELSE IF /\ m15_trend = "BEARISH"
                                          /\ m5_confirmation = "SELL"
                                          /\ m1_entry = "SELL"
                                          /\ FloatGE(m1_current.atr, e.min_atr)
                                  THEN "SELL"
                                  ELSE "NONE"
                    IN [signal |-> signal, details |-> details,
                        engine |-> IF signal = "NONE" THEN e
                                   ELSE [e EXCEPT !.min_atr = m1_current.atr + 1],
                        data_m1 |-> data_m1, data_m5 |-> data_m5,
                        data_m15 |-> data_m15]

\* get_signal: the signal and the details it returns, and the engine and the
\* three frames as the call leaves them
get_signal(e, current_time, data_m1, data_m5, data_m15) ==
    LET m1 == UpTo(data_m1, current_time)
        m5 == UpTo(data_m5, current_time)
        m15 == UpTo(data_m15, current_time)
    IN \* IndexError from iloc[-1] or iloc[-2], caught
       IF Len(m1) = 0 \/ Len(m5) = 0 \/ Len(m15) = 0 \/ Len(m1) < 2
       THEN NoSignal(e, data_m1, data_m5, data_m15)
       ELSE LET m1_current == m1[Len(m1)]
                m5_current == m5[Len(m5)]
                m15_current == m15[Len(m15)]
                m1_previous == m1[Len(m1) - 1]
            IN IF ~_indicators_valid(m1_current, m5_current, m15_current)
               THEN NoSignal(e, data_m1, data_m5, data_m15)
               ELSE LET m15_trend == _analyze_m15_trend(m15_current)
                        m5_confirmation == _analyze_m5_confirmation(e, m5_current, m15_trend)
                        m1_entry == _analyze_m1_entry(e, m1_current, m1_previous)
                        details == [m15_trend |-> m15_trend,
                                    m5_confirmation |-> m5_confirmation,
                                    m1_entry |-> m1_entry,
                                    atr |-> m1_current.atr,
                                    price |-> m1_current.close,
                                    m15_ema_fast |-> m15_current.ema_fast,
                                    m15_ema_slow |-> m15_current.ema_slow,
                                    m5_rsi |-> m5_current.rsi,
                                    m5_vwap |-> m5_current.vwap,
                                    m1_stoch_k |-> m1_current.stoch_k,
                                    m1_stoch_d |-> m1_current.stoch_d]
                        signal == IF /\ m15_trend = "BULLISH"
                                     /\ m5_confirmation = "BUY"
                                     /\ m1_entry = "BUY"
                                     /\ FloatGE(m1_current.atr, e.min_atr)
                                  THEN "BUY"
                                  ELSE IF /\ m15_trend = "BEARISH"
                                          /\ m5_confirmation = "SELL"
                                          /\ m1_entry = "SELL"
                                          /\ FloatGE(m1_current.atr, e.min_atr)
                                  THEN "SELL"
                                  ELSE "NONE"
                    IN [signal |-> signal, details |-> details, engine |-> e,
                        data_m1 |-> data_m1, data_m5 |-> data_m5,
                        data_m15 |-> data_m15]

----------------------------------------------------------------------------
(* State shared by the specifications                                      *)
(*   trades  the Trade objects, by identity (index)                        *)
(*   pf      the Portfolio                                                 *)
(*   bt      the Backtester's own fields and its position in the data      *)
(*   bar     the M1 bar of the current iteration                           *)
(*   pc      the position in Backtester.run, or the client of the API      *)
(*   call    the last operation: its arguments and what it returned; in a  *)
(*           run also two facts about the run so far, kept for the         *)
(*           properties: breached, the time of the first bar on which      *)
(*           check_global_drawdown returned False, and capped, the date of *)
(*           the last bar on which check_daily_limits returned False for   *)
(*           the trade counter                                             *)

NoStats == [none |-> TRUE]

NoCall == [op |-> "init", tid |-> 0, price |-> None, time |-> None,
           pct |-> 0, ret |-> 0, ok |-> TRUE, raised |-> FALSE,
           stats |-> NoStats, n |-> 0, note |-> "",
           breached |-> None, capped |-> None]

NoBar == [time |-> None, high |-> None, low |-> None, close |-> None]

NoBacktester == [ticket_counter |-> 1, current_date |-> None, idx |-> 0]

\* Backtester's defaults for the Portfolio it owns; commission 0.0
DefaultPortfolio == NewPortfolio(40000, 100, 0, 1)

----------------------------------------------------------------------------
(* A client calling the methods of one Trade                               *)

TradeVolumes == {2, 4}

TradeEntries == {4}

TradePrices == {3, 4, 6}

TradeTimes == {1}

\* percent arguments 0.0, 0.5 and 1.0
Percents == {0, 50, 100}

\* a trade built by a client: the stop 1 pip from the entry, the targets at
\* 2 and 3 pips
ClientTrade(ticket, symbol, trade_type, entry_time, entry_price, volume) ==
    LET sgn == IF trade_type = "BUY" THEN 1 ELSE 0 - 1
    IN NewTrade(ticket, symbol, trade_type, entry_time, entry_price, volume,
                entry_price - sgn, entry_price + sgn * 2, entry_price + sgn * 3, "")

InitTrade ==
    /\ \E ty \in TradeType, e \in TradeEntries, v \in TradeVolumes :
           trades = <<ClientTrade(1, "EURUSD", ty, 0, e, v)>>
    /\ pf = DefaultPortfolio
    /\ bt = NoBacktester
    /\ bar = NoBar
    /\ pc = "trade"
    /\ call = NoCall

TrUpdateProfit ==
    /\ pc = "trade"
    /\ \E price \in TradePrices :
         /\ trades' = [trades EXCEPT ![1] =
                update_profit(@, price, _get_pip_value(@.symbol, @.volume))]
         /\ call' = [NoCall EXCEPT !.op = "update_profit", !.tid = 1, !.price = price]
    /\ UNCHANGED <<pf, bt, bar, pc>>

TrClosePartial ==
    /\ pc = "trade"
    /\ \E price \in TradePrices, time \in TradeTimes, pct \in Percents :
         /\ (trades[1].volume_open * pct) % 100 = 0
         /\ LET r == close_partial(trades[1], price, time,
                        _get_pip_value(trades[1].symbol, trades[1].volume), pct)
            IN /\ trades' = [trades EXCEPT ![1] = r.t]
               /\ call' = [NoCall EXCEPT !.op = "close_partial", !.tid = 1,
                              !.price = price, !.time = time, !.pct = pct,
                              !.ret = r.ret]
    /\ UNCHANGED <<pf, bt, bar, pc>>

TrMoveToBreakEven ==
    /\ pc = "trade"
    /\ trades' = [trades EXCEPT ![1] = move_to_break_even(@)]
    /\ call' = [NoCall EXCEPT !.op = "move_to_break_even", !.tid = 1]
    /\ UNCHANGED <<pf, bt, bar, pc>>

TrClose ==
    /\ pc = "trade"
    /\ \E price \in TradePrices, time \in TradeTimes :
         LET r == close(trades[1], price, time,
                        _get_pip_value(trades[1].symbol, trades[1].volume), "client")
         IN /\ trades' = [trades EXCEPT ![1] = r.t]
            /\ call' = [NoCall EXCEPT !.op = "close", !.tid = 1,
                           !.price = price, !.time = time, !.ret = r.ret]
    /\ UNCHANGED <<pf, bt, bar, pc>>

NextTrade == TrUpdateProfit \/ TrClosePartial \/ TrMoveToBreakEven \/ TrClose

SpecTrade == InitTrade /\ [][NextTrade]_vars

----------------------------------------------------------------------------
\* C3: for every Trade, after construction and after any sequence of
\* close_partial (0 <= percent <= 1) and close calls,
\* volume_open + volume_closed = volume.
C3_VolumeConserved ==
    \A i \in 1..Len(trades) :
        trades[i].volume_open + trades[i].volume_closed = trades[i].volume

\* a trade that was closed in part, with volume on both sides
C3_Witness ==
    \E i \in 1..Len(trades) :
        /\ trades[i].status = "PARTIAL_CLOSE"
        /\ trades[i].volume_open > 0
        /\ trades[i].volume_closed > 0
        /\ call.op = "close_partial"

----------------------------------------------------------------------------
(* A client calling the methods of one Portfolio, in any order             *)

\* the most Trade objects the client creates
MaxTrades == 2

\* the most calls the client makes
MaxCalls == 5

LedgerBalances == {20}

LedgerCommissions == {0, 1}

LedgerEntries == {4}

LedgerPrices == {2, 4, 7}

LedgerSymbols == {"EURUSD"}

LedgerMaxDailyTrades == {1}

\* limits in percent: 5.0 and 10.0, Backtester's defaults
LedgerMaxLoss == {Frac(5, 1)}

LedgerMaxDrawdown == {Frac(10, 1)}

LedgerVolumes == {2}

LedgerPercents == {50}

\* the client's clock: the number of calls made so far
Now == call.n

\* the record of the client's next call
Call(op) == [NoCall EXCEPT !.op = op, !.n = call.n + 1]

InitLedger ==
    /\ trades = <<>>
    /\ \E b \in LedgerBalances, c \in LedgerCommissions :
           pf = NewPortfolio(b, 100, c, 1)
    /\ bt = NoBacktester
    /\ bar = NoBar
    /\ pc = "ledger"
    /\ call = NoCall

\* Trade(...) and Portfolio.add_trade on it
LAddTrade ==
    /\ pc = "ledger"
    /\ call.n < MaxCalls
    /\ Len(trades) < MaxTrades
    /\ \E ty \in TradeType, sym \in LedgerSymbols, v \in LedgerVolumes, e \in LedgerEntries :
         LET tid == Len(trades) + 1
             t == ClientTrade(tid, sym, ty, Now, e, v)
             r == add_trade(pf, Append(trades, t), tid)
         IN /\ pf' = r.pf
            /\ trades' = r.trades
            /\ call' = [Call("add_trade") EXCEPT !.tid = tid]
    /\ UNCHANGED <<bt, bar, pc>>

\* a Trade that the client keeps for itself: a copy (copy.copy) of a trade
\* the portfolio holds open, a distinct object with the same field values;
\* the portfolio is not told
LNewTrade ==
    /\ pc = "ledger"
    /\ call.n < MaxCalls
    /\ Len(trades) < MaxTrades
    /\ \E j \in 1..Len(trades) :
          /\ \E k \in 1..Len(pf.open_trades) : pf.open_trades[k] = j
          /\ trades' = Append(trades, trades[j])
    /\ call' = [Call("Trade") EXCEPT !.tid = Len(trades) + 1]
    /\ UNCHANGED <<pf, bt, bar, pc>>

LUpdateEquity ==
    /\ pc = "ledger"
    /\ call.n < MaxCalls
    /\ \E sym \in LedgerSymbols, price \in LedgerPrices :
         LET r == update_equity(pf, trades, Now + 1, [s \in {sym} |-> price])
         IN /\ pf' = r.pf
            /\ trades' = r.trades
            /\ call' = [Call("update_equity") EXCEPT !.price = price,
                           !.time = Now + 1]
    /\ UNCHANGED <<bt, bar, pc>>

LCloseTrade ==
    /\ pc = "ledger"
    /\ call.n < MaxCalls
    /\ \E tid \in 1..Len(trades), price \in LedgerPrices :
         LET r == close_trade(pf, trades, tid, price, Now, "client")
         IN /\ pf' = r.pf
            /\ trades' = r.trades
            /\ call' = [Call("close_trade") EXCEPT !.tid = tid,
                           !.price = price, !.time = Now, !.raised = r.raised]
    /\ UNCHANGED <<bt, bar, pc>>

LPartialCloseTrade ==
    /\ pc = "ledger"
    /\ call.n < MaxCalls
    /\ \E tid \in 1..Len(trades), price \in LedgerPrices, pct \in LedgerPercents :
         /\ (trades[tid].volume_open * pct) % 100 = 0
         /\ (trades[tid].volume * pct) % 100 = 0
         /\ LET r == partial_close_trade(pf, trades, tid, price, Now, pct)
            IN /\ pf' = r.pf
               /\ trades' = r.trades
               /\ call' = [Call("partial_close_trade") EXCEPT !.tid = tid,
                              !.price = price, !.time = Now, !.pct = pct]
    /\ UNCHANGED <<bt, bar, pc>>

LResetDailyStats ==
    /\ pc = "ledger"
    /\ call.n < MaxCalls
    /\ pf' = reset_daily_stats(pf)
    /\ call' = Call("reset_daily_stats")
    /\ UNCHANGED <<trades, bt, bar, pc>>

\* with balance 0 the division of check_daily_limits raises ZeroDivisionError
LCheckDailyLimits ==
    /\ pc = "ledger"
    /\ call.n < MaxCalls
    /\ \E mt \in LedgerMaxDailyTrades, ml \in LedgerMaxLoss :
         IF pf.daily_trades < mt /\ pf.balance = 0
         THEN call' = [Call("check_daily_limits") EXCEPT !.raised = TRUE]
         ELSE call' = [Call("check_daily_limits") EXCEPT
                          !.ok = check_daily_limits(pf, mt, ml)]
    /\ UNCHANGED <<trades, pf, bt, bar, pc>>

LCheckGlobalDrawdown ==
    /\ pc = "ledger"
    /\ call.n < MaxCalls
    /\ \E md \in LedgerMaxDrawdown :
         call' = [Call("check_global_drawdown") EXCEPT
                     !.ok = check_global_drawdown(pf, md)]
    /\ UNCHANGED <<trades, pf, bt, bar, pc>>

LGetStatistics ==
    /\ pc = "ledger"
    /\ call.n < MaxCalls
    /\ call' = [Call("get_statistics") EXCEPT !.stats = get_statistics(pf)]
    /\ UNCHANGED <<trades, pf, bt, bar, pc>>

NextLedger ==
    \/ LAddTrade
    \/ LNewTrade
    \/ LUpdateEquity
    \/ LCloseTrade
    \/ LPartialCloseTrade
    \/ LResetDailyStats
    \/ LCheckDailyLimits
    \/ LCheckGlobalDrawdown
    \/ LGetStatistics

SpecLedger == InitLedger /\ [][NextLedger]_vars

----------------------------------------------------------------------------
\* C8: Portfolio.balance changes only in add_trade (which deducts the entry
\* commission), close_trade and partial_close_trade; update_equity,
\* reset_daily_stats, check_daily_limits, check_global_drawdown and
\* get_statistics leave it unchanged.
C8_BalanceFrame ==
    [][/\ pf'.balance # pf.balance =>
             call'.op \in {"add_trade", "close_trade", "partial_close_trade"}
       /\ call'.op \in {"update_equity", "reset_daily_stats", "check_daily_limits",
                        "check_global_drawdown", "get_statistics"} =>
             pf'.balance = pf.balance
       /\ call'.op = "add_trade" =>
             pf'.balance = pf.balance
                 - pf.commission_per_lot * trades'[call'.tid].volume]_vars

\* update_equity has just run with a floating result, on a balance that the
\* entry commission had changed
C8_Witness ==
    /\ call.op = "update_equity"
    /\ pf.equity # pf.balance
    /\ pf.balance # pf.initial_balance

\* the sum of the profit fields of the trades of a list
RECURSIVE SumProfit(_, _)
SumProfit(ts, lst) ==
    IF lst = <<>> THEN 0 ELSE ts[Head(lst)].profit + SumProfit(ts, Tail(lst))

\* C9: every record appended to equity_curve has equity = balance +
\* floating_pl, and floating_pl is the sum of the floating profit of the
\* trades open at that moment (0 when none is open); the record holds the
\* portfolio's balance and equity of that moment.
C9_EquityRecords ==
    /\ \A i \in 1..Len(pf.equity_curve) :
           pf.equity_curve[i].equity =
               pf.equity_curve[i].balance + pf.equity_curve[i].floating_pl
    /\ call.op = "update_equity" =>
           LET rec == pf.equity_curve[Len(pf.equity_curve)]
           IN /\ rec.floating_pl = SumProfit(trades, pf.open_trades)
              /\ rec.balance = pf.balance
              /\ rec.equity = pf.equity
              /\ rec.time = call.time

\* a record with a floating loss or gain was just appended
C9_Witness ==
    /\ call.op = "update_equity"
    /\ pf.equity_curve[Len(pf.equity_curve)].floating_pl # 0
    /\ pf.open_trades # <<>>

\* C10: Portfolio.max_drawdown_percent is non-decreasing: no ledger
\* operation ever lowers it.
C10_DrawdownPercentMonotone ==
    [][FracGE(pf'.max_drawdown_percent, pf.max_drawdown_percent)]_vars

----------------------------------------------------------------------------
(* Backtester.run over M1 data of at most MaxBars bars                     *)

\* the most M1 bars in the data
MaxBars == 3

\* prices of the data, in pips above a base price
Prices == 0..4

\* the M1 data: rows bars with prices among data.prices, bar k at
\* data.start + (k - 1) * data.step hours, and data.gap hours more after the
\* first bar:
\* 08:00, 09:00, 10:00 of one day (all in the London session), or
\* 08:00, 17:00 (the end of the New York session) and 02:00 of the next day
Schedules ==
    {[start |-> 8, step |-> st, gap |-> 0, rows |-> MaxBars, prices |-> Prices] :
        st \in {1, 9}}

\* Backtester(symbol, ...): the defaults for the risk limits, the reward
\* multiples, the partial close and the sessions; a 1 pip stop, at most 2
\* trades a day, 20 USD of balance (which sizes a trade at 0.02 lot, 4
\* volume units), commission_per_lot 0.0 or 0.05 USD
RunConfigs ==
    {[symbol |-> "EURUSD", initial_balance |-> 80000, leverage |-> 100,
      commission_per_lot |-> c, spread_pips |-> 1, risk_per_trade |-> 1,
      max_drawdown_percent |-> Frac(10, 1),
      max_daily_drawdown_percent |-> Frac(5, 1),
      max_daily_trades |-> 2, stop_loss_pips |-> 1,
      rr_partial |-> 2, rr_final |-> 3, partial_close_percent |-> 50,
      london_start |-> 8, london_end |-> 12,
      ny_start |-> 13, ny_end |-> 17] : c \in {0, 1}}

BarTime(data, k) ==
    data.start + (k - 1) * data.step + (IF k > 1 THEN data.gap ELSE 0)

\* the rows a bar of the data can be, at a given time
Bars(data, time) ==
    {b \in [time : {time}, high : data.prices, low : data.prices,
            close : data.prices] :
        b.low <= b.close /\ b.close <= b.high}

\* the record of a step of run: the step, and the run's history
RunCall(op) == [NoCall EXCEPT !.op = op, !.breached = call.breached,
                              !.capped = call.capped]

\* which test of _check_limits returned False
LimitNote(b, p) ==
    IF ~check_daily_limits(p, b.max_daily_trades, b.max_daily_drawdown_percent)
    THEN "daily"
    ELSE IF ~check_global_drawdown(p, b.max_drawdown_percent)
    THEN "drawdown"
    ELSE "position"

\* the history after the limits were checked on the current bar
EntryCall ==
    [RunCall("entry") EXCEPT
        !.time = bar.time,
        !.capped = IF pf.daily_trades >= bt.max_daily_trades
                   THEN DateOf(bar.time) ELSE @,
        !.breached = IF @ = None /\ LimitNote(bt, pf) = "drawdown"
                     THEN bar.time ELSE @]

Init ==
    /\ trades = <<>>
    /\ \E cfg \in RunConfigs, data \in Schedules :
         /\ pf = NewPortfolio(cfg.initial_balance, cfg.leverage,
                              cfg.commission_per_lot, cfg.spread_pips)
         /\ bt = NewBacktester(cfg, data)
    /\ bar = NoBar
    /\ pc = "loop"
    /\ call = NoCall

\* one iteration of the loop, up to update_equity: the next row, the daily
\* control and the equity update with the row's close
RunBarBegin ==
    /\ pc = "loop"
    /\ bt.idx < bt.data.rows
    /\ \E row \in Bars(bt.data, BarTime(bt.data, bt.idx + 1)) :
         LET current_time == row.time
             new_day == bt.current_date = None \/ DateOf(current_time) # bt.current_date
             p1 == IF new_day THEN reset_daily_stats(pf) ELSE pf
             r == update_equity(p1, trades, current_time,
                                [sym \in {bt.symbol} |-> row.close])
         IN /\ bar' = row
            /\ bt' = [bt EXCEPT !.idx = @ + 1,
                                !.current_date = IF new_day THEN DateOf(current_time) ELSE @]
            /\ pf' = r.pf
            /\ trades' = r.trades
            /\ call' = [RunCall("update_equity") EXCEPT !.price = row.close,
                           !.time = current_time,
                           !.note = IF new_day THEN "new day" ELSE ""]
    /\ pc' = "manage"

\* self._manage_open_positions(row, current_time)
RunManage ==
    /\ pc = "manage"
    /\ LET r == _manage_open_positions(bt, pf, trades, bar, bar.time)
       IN /\ pf' = r.pf
          /\ trades' = r.trades
          /\ call' = [RunCall("manage") EXCEPT !.time = bar.time,
                         !.raised = r.raised]
          /\ pc' = IF r.raised THEN "raised" ELSE "entry"
    /\ UNCHANGED <<bt, bar>>

\* the rest of the iteration: limits, session, signal and _open_trade.  The
\* signal is what get_signal returns for the indicator data at this time.
\* The row's high and low are not read after this step, so bar keeps only
\* the time and the close, which the end of run reads from the last row.
RunEntry ==
    /\ pc = "entry"
    /\ IF pf.daily_trades < bt.max_daily_trades /\ pf.balance = 0
       THEN \* ZeroDivisionError in check_daily_limits
            /\ call' = [RunCall("entry") EXCEPT !.time = bar.time,
                           !.raised = TRUE]
            /\ pc' = "raised"
            /\ UNCHANGED <<trades, pf, bt, bar>>
       ELSE IF ~_check_limits(bt, pf)
       THEN /\ call' = [EntryCall EXCEPT !.note = LimitNote(bt, pf)]
            /\ pc' = "loop"
            /\ bar' = [bar EXCEPT !.high = None, !.low = None]
            /\ UNCHANGED <<trades, pf, bt>>
       ELSE IF ~_is_trading_session(bt, bar.time)
       THEN /\ call' = [EntryCall EXCEPT !.note = "session"]
            /\ pc' = "loop"
            /\ bar' = [bar EXCEPT !.high = None, !.low = None]
            /\ UNCHANGED <<trades, pf, bt>>
       ELSE \E signal \in SignalType :
              /\ call' = [EntryCall EXCEPT !.note = signal]
              /\ pc' = "loop"
              /\ bar' = [bar EXCEPT !.high = None, !.low = None]
              /\ IF signal # "NONE"
                 THEN LET r == _open_trade(bt, pf, trades, signal, bar, bar.time)
                      IN /\ bt' = r.bt
                         /\ pf' = r.pf
                         /\ trades' = r.trades
                 ELSE UNCHANGED <<trades, pf, bt>>

\* after the last row: close_all_trades at the last row's close and time
\* when a trade is open, then get_statistics
RunFinish ==
    /\ pc = "loop"
    /\ LET r == IF pf.open_trades # <<>>
                THEN close_all_trades(pf, trades, bar.close, bar.time, "End of backtest")
                ELSE [pf |-> pf, trades |-> trades, raised |-> FALSE]
       IN /\ pf' = r.pf
          /\ trades' = r.trades
          /\ call' = [RunCall("finish") EXCEPT !.raised = r.raised,
                         !.stats = IF r.raised THEN NoStats ELSE get_statistics(r.pf)]
          /\ pc' = IF r.raised THEN "raised" ELSE "done"
    /\ UNCHANGED <<bt, bar>>

\* generate_reports(results), up to the statistics it hands to the report
\* generator: calculate_all of the closed trades and the equity curve,
\* updated with calculate_consecutive_stats
RunReports ==
    /\ pc = "done"
    /\ call' = [RunCall("generate_reports") EXCEPT
                  !.stats = calculate_consecutive_stats(trades, pf.closed_trades) @@
                            calculate_all(trades, pf.closed_trades, pf.equity_curve)]
    /\ pc' = "reported"
    /\ UNCHANGED <<trades, pf, bt, bar>>

Next == RunBarBegin \/ RunManage \/ RunEntry \/ RunFinish \/ RunReports

Spec == Init /\ [][Next]_vars

----------------------------------------------------------------------------
(* Backtester.run with a wide stop and a large risk per trade, over data   *)
(* that gaps, so that the risk limits are reached                          *)

\* the most M1 bars in the gapping data
MaxLimitBars == 4

\* a base price, and prices 5 and 9 pips above it
LimitPrices == {10, 15, 19}

\* 08:00 .. 11:00 of one day (all in the London session), or 16:00 (in the
\* New York session), 19:00, 22:00 and 01:00 of the next day, or 16:00 of
\* one day and 08:00 .. 10:00 of the next
LimitData ==
    {[start |-> 8, step |-> 1, gap |-> 0, rows |-> MaxLimitBars,
      prices |-> LimitPrices],
     [start |-> 16, step |-> 3, gap |-> 0, rows |-> MaxLimitBars,
      prices |-> LimitPrices],
     [start |-> 16, step |-> 1, gap |-> 15, rows |-> MaxLimitBars,
      prices |-> LimitPrices]}

\* Backtester(symbol, initial_balance=40.0, risk_per_trade=50.0,
\* max_drawdown_percent=20.0, stop_loss_pips=2.0, max_daily_trades=1 or 2):
\* the first trade is sized at 1.0 lot (200 volume units), 10 USD a pip
LimitConfigs ==
    {[symbol |-> "EURUSD", initial_balance |-> 160000, leverage |-> 100,
      commission_per_lot |-> 0, spread_pips |-> 1, risk_per_trade |-> 50,
      max_drawdown_percent |-> Frac(20, 1),
      max_daily_drawdown_percent |-> Frac(5, 1),
      max_daily_trades |-> m, stop_loss_pips |-> 2,
      rr_partial |-> 2, rr_final |-> 3, partial_close_percent |-> 50,
      london_start |-> 8, london_end |-> 12,
      ny_start |-> 13, ny_end |-> 17] : m \in {1, 2}}

InitLimits ==
    /\ trades = <<>>
    /\ \E cfg \in LimitConfigs, data \in LimitData :
         /\ pf = NewPortfolio(cfg.initial_balance, cfg.leverage,
                              cfg.commission_per_lot, cfg.spread_pips)
         /\ bt = NewBacktester(cfg, data)
    /\ bar = NoBar
    /\ pc = "loop"
    /\ call = NoCall

SpecLimits == InitLimits /\ [][Next]_vars

----------------------------------------------------------------------------
(* A client calling SignalEngineBT.get_signal on three frames that         *)
(* calculate_indicators has filled.  The EMA, RSI, stochastic and ATR      *)
(* columns hold given values; the vwap column is computed by _add_vwap     *)
(* from the M5 bars.  bt holds the engine, the frames and the times the    *)
(* client asks about.                                                      *)

\* the most rows in a frame whose rows are at different times
MaxRows == 3

\* the window of the moving average of typical prices
VwapWindow == 20

M15Row(time, ema_fast, ema_slow) ==
    [time |-> time, ema_fast |-> ema_fast, ema_slow |-> ema_slow]

\* an M5 bar before _add_vwap
M5Row(time, high, low, close_price, volume, ema_fast, ema_slow, rsi) ==
    [time |-> time, high |-> high, low |-> low, close |-> close_price,
     volume |-> volume, ema_fast |-> ema_fast, ema_slow |-> ema_slow,
     rsi |-> rsi, vwap |-> Frac(0, 0)]

M1Row(time, close_price, stoch_k, stoch_d, atr) ==
    [time |-> time, close |-> close_price, stoch_k |-> stoch_k,
     stoch_d |-> stoch_d, atr |-> atr]

\* one M15 bar: the fast EMA above, below and on the slow one, or undefined
M15Values ==
    {M15Row(1, f, s) : f \in {1, 2}, s \in {1, 2}} \cup
    {M15Row(1, NaN, 1), M15Row(1, 1, NaN)}

\* one M5 bar: the EMAs as above; a close on, above and below the typical
\* price, which is the VWAP of a single bar; an RSI on the four thresholds
\* and outside them; and bars with one indicator undefined (volume 0 leaves
\* the VWAP undefined)
M5Values ==
    {M5Row(1, 6, 4, c, 1, e[1], e[2], r) :
        c \in {4, 5, 6}, e \in {<<2, 1>>, <<1, 2>>, <<1, 1>>},
        r \in {30, 40, 60, 70, 75}} \cup
    {M5Row(1, 6, 4, 6, 1, NaN, 1, 50), M5Row(1, 6, 4, 6, 1, 2, NaN, 50),
     M5Row(1, 6, 4, 6, 1, 2, 1, NaN), M5Row(1, 6, 4, 6, 0, 2, 1, 50)}

\* the previous M1 bar: %K on, under and over the two thresholds, and on,
\* under and over %D, or undefined
M1PreviousValues ==
    {M1Row(1, 5, kd[1], kd[2], 3) :
        kd \in {<<20, 20>>, <<20, 19>>, <<21, 30>>, <<80, 80>>, <<80, 81>>,
                <<79, 70>>, <<NaN, 20>>, <<20, NaN>>}}

\* the current M1 bar: %K over, under and on %D, an ATR on and under
\* min_atr, or an indicator undefined
M1CurrentValues ==
    {M1Row(2, 5, kd[1], kd[2], a) :
        kd \in {<<30, 20>>, <<20, 30>>, <<20, 20>>}, a \in {2, 3}} \cup
    {M1Row(2, 5, NaN, 20, 3), M1Row(2, 5, 30, NaN, 3), M1Row(2, 5, 30, 20, NaN)}

\* frames of one M15 bar, one M5 bar and two M1 bars, asked about at the
\* time of the second M1 bar
ValueFrames ==
    {[data_m1 |-> <<p, c>>, data_m5 |-> _add_vwap(<<r5>>), data_m15 |-> <<r15>>,
      times |-> {2}] :
        p \in M1PreviousValues, c \in M1CurrentValues, r5 \in M5Values,
        r15 \in M15Values}

\* bars for the frames of several rows; after an M1Low bar an M1Up bar is a
\* buy entry, after an M1High bar an M1Low bar is a sell entry
M1Low(time) == M1Row(time, 5, 10, 20, 3)

M1Up(time) == M1Row(time, 5, 30, 20, 3)

M1High(time) == M1Row(time, 5, 90, 80, 3)

M5Buy(time, volume) == M5Row(time, 6, 4, 6, volume, 2, 1, 50)

M5Sell(time, volume) == M5Row(time, 6, 4, 4, volume, 1, 2, 50)

\* the frames of n rows at the times start, start + step, ..., each row
\* made by one of the makers
RECURSIVE RowSeqs(_, _, _, _)
RowSeqs(makers, n, start, step) ==
    IF n = 0 THEN {<<>>}
    ELSE {Append(s, mk[start + (n - 1) * step]) :
             s \in RowSeqs(makers, n - 1, start, step), mk \in makers}

\* frames of up to MaxRows M1 bars at 22:00, 23:00, 00:00, ... (the third
\* bar is on the next date), fewer M5 bars from 22:00 or from 23:00 on, and
\* up to two M15 bars at 22:00 and 00:00, asked about from 21:00 on
TimeFrames ==
    {[data_m1 |-> m1, data_m5 |-> _add_vwap(m5), data_m15 |-> m15,
      times |-> 21..(22 + MaxRows)] :
        m1 \in UNION {RowSeqs({[t \in 0..48 |-> M1Low(t)], [t \in 0..48 |-> M1Up(t)],
                               [t \in 0..48 |-> M1High(t)]}, n, 22, 1) : n \in 0..MaxRows},
        m5 \in UNION {RowSeqs({[t \in 0..48 |-> M5Buy(t, 1)], [t \in 0..48 |-> M5Sell(t, 0)]},
                              n, first, 1) : n \in 0..(MaxRows - 1), first \in {22, 23}},
        m15 \in {<<>>, <<M15Row(22, 2, 1)>>, <<M15Row(22, 1, 2)>>,
                 <<M15Row(22, 1, 2), M15Row(24, 2, 1)>>}}

\* frames whose M5 bars, VwapWindow of them on one date, are all alike, with
\* volume 0 or 1 throughout, asked about at the time of the last bar
FlatFrames ==
    {[data_m1 |-> m1,
      data_m5 |-> _add_vwap([k \in 1..VwapWindow |-> mk[k - 1]]),
      data_m15 |-> <<m15>>, times |-> {VwapWindow - 1}] :
        m1 \in {<<M1Low(VwapWindow - 2), M1Up(VwapWindow - 1)>>,
                <<M1High(VwapWindow - 2), M1Low(VwapWindow - 1)>>},
        mk \in {[t \in 0..48 |-> M5Buy(t, v)] : v \in {0, 1}} \cup
               {[t \in 0..48 |-> M5Sell(t, v)] : v \in {0, 1}},
        m15 \in {M15Row(0, 2, 1), M15Row(0, 1, 2)}}

InitSignal ==
    /\ trades = <<>>
    /\ pf = DefaultPortfolio
    /\ \E f \in ValueFrames \cup TimeFrames \cup FlatFrames :
         bt = [signal_engine |-> NewSignalEngineBT,
               data_m1 |-> f.data_m1, data_m5 |-> f.data_m5,
               data_m15 |-> f.data_m15, times |-> f.times]
    /\ bar = NoBar
    /\ pc = "signal"
    /\ call = NoCall

\* signal, details = signal_engine.get_signal(current_time, data_m1,
\* data_m5, data_m15); call.n is 2 when the call before this one asked about
\* the same time, 1 otherwise
SigGetSignal ==
    /\ pc = "signal"
    /\ \E current_time \in bt.times :
         LET r == get_signal(bt.signal_engine, current_time,
                             bt.data_m1, bt.data_m5, bt.data_m15)
         IN /\ bt' = [bt EXCEPT !.signal_engine = r.engine,
                                !.data_m1 = r.data_m1, !.data_m5 = r.data_m5,
                                !.data_m15 = r.data_m15]
            /\ call' = [NoCall EXCEPT !.op = "get_signal", !.time = current_time,
                                      !.note = r.signal, !.stats = r.details,
                                      !.n = IF call.op = "get_signal" /\ call.time = current_time
                                            THEN 2 ELSE 1]
    /\ UNCHANGED <<trades, pf, bar, pc>>

NextSignal == SigGetSignal

SpecSignal == InitSignal /\ [][NextSignal]_vars

----------------------------------------------------------------------------
(* What a bar does to a trade, read off the bar and the trade's prices *)

HitsStop(t, row) ==
    IF t.trade_type = "BUY" THEN row.low <= t.stop_loss
                            ELSE row.high >= t.stop_loss

HitsFinal(t, row) ==
    IF t.trade_type = "BUY" THEN row.high >= t.take_profit_final
                            ELSE row.low <= t.take_profit_final

HitsPartial(t, row) ==
    IF t.trade_type = "BUY" THEN row.high >= t.take_profit_partial
                            ELSE row.low <= t.take_profit_partial

InList(i, lst) == \E j \in 1..Len(lst) : lst[j] = i

\* from t to t2 the whole open volume was closed and nothing else was done
ClosedInOneGo(t, t2) ==
    /\ t2.status = "CLOSED"
    /\ t2.volume_open = 0
    /\ t2.volume_closed = t.volume_closed + t.volume_open
    /\ t2.partial_close_triggered = t.partial_close_triggered
    /\ t2.break_even_triggered = t.break_even_triggered
    /\ t2.stop_loss = t.stop_loss

\* C1: at every point of Backtester.run open_trades holds at most one trade,
\* and a trade is added only by the entry step of a bar, after that bar's
\* position management, when open_trades is empty.
C1_SingleOpenTrade ==
    /\ [](Len(pf.open_trades) <= 1)
    /\ [][Len(pf'.open_trades) > Len(pf.open_trades) =>
              /\ pc = "entry"
              /\ pf.open_trades = <<>>
              /\ Len(pf'.open_trades) = 1]_vars

\* the entry step opened a trade on the bar that closed the previous one
C1_Witness ==
    /\ call.op = "entry"
    /\ call.note \in {"BUY", "SELL"}
    /\ Len(pf.open_trades) = 1
    /\ \E j \in 1..Len(pf.closed_trades) :
           trades[pf.closed_trades[j]].exit_time = bar.time

\* C2: over a whole run a trade's status only moves OPEN -> PARTIAL_CLOSE ->
\* CLOSED or OPEN -> CLOSED (so PARTIAL_CLOSE is entered at most once and
\* CLOSED is never left), a new trade starts OPEN, and when run returns every
\* trade is CLOSED.
C2_StatusLifecycle ==
    /\ [][\A i \in 1..Len(trades') :
              IF i <= Len(trades)
              THEN \/ trades'[i].status = trades[i].status
                   \/ <<trades[i].status, trades'[i].status>> \in
                          {<<"OPEN", "PARTIAL_CLOSE">>, <<"OPEN", "CLOSED">>,
                           <<"PARTIAL_CLOSE", "CLOSED">>}
              ELSE trades'[i].status = "OPEN"]_vars
    /\ [](pc = "done" => \A i \in 1..Len(trades) : trades[i].status = "CLOSED")

\* run has returned with a trade that went through PARTIAL_CLOSE
C2_Witness ==
    /\ pc = "done"
    /\ \E i \in 1..Len(trades) :
           trades[i].status = "CLOSED" /\ trades[i].partial_close_triggered

\* C4: in _manage_open_positions, for one trade on one bar, the stop-loss
\* goes before the final take-profit and both before the partial
\* take-profit, and one of them at most is acted on: a stop closes the trade
\* at the stop price even when the final take-profit is reached too, a stop
\* or a final take-profit excludes a partial close on that bar, and with no
\* trigger the trade is left as it is.
C4_TriggerPriority ==
    [][pc = "manage" =>
         \A j \in 1..Len(pf.open_trades) :
            LET i == pf.open_trades[j]
                t == trades[i]
                t2 == trades'[i]
            IN /\ HitsStop(t, bar) =>
                     /\ ClosedInOneGo(t, t2)
                     /\ t2.exit_price = t.stop_loss
                     /\ t2.comment = "Stop Loss"
               /\ (~HitsStop(t, bar) /\ HitsFinal(t, bar)) =>
                     /\ ClosedInOneGo(t, t2)
                     /\ t2.exit_price = t.take_profit_final
                     /\ t2.comment = "Take Profit Final"
               /\ (~HitsStop(t, bar) /\ ~HitsFinal(t, bar)) =>
                     /\ t2.status # "CLOSED"
                     /\ InList(i, pf'.open_trades)
               /\ (~HitsStop(t, bar) /\ ~HitsFinal(t, bar)
                      /\ (~HitsPartial(t, bar) \/ t.partial_close_triggered)) =>
                     t2 = t]_vars

\* a bar reached both the stop and the final take-profit of a trade, which
\* was closed at its stop
C4_Witness ==
    /\ call.op = "manage"
    /\ \E i \in 1..Len(trades) :
          /\ trades[i].exit_time = bar.time
          /\ trades[i].comment = "Stop Loss"
          /\ HitsFinal(trades[i], bar)
          /\ HitsStop(trades[i], bar)
          /\ ~trades[i].partial_close_triggered

\* C5: when a bar's low is <= the stop_loss of an open BUY trade (its high
\* >= the stop_loss of an open SELL trade) the trade is closed fully on that
\* bar: status CLOSED, volume_open 0, exit_price the stop_loss price,
\* comment "Stop Loss", exit_time the bar's time, and it moves from
\* open_trades to closed_trades.
C5_StopLossClose ==
    [][pc = "manage" =>
         \A j \in 1..Len(pf.open_trades) :
            LET i == pf.open_trades[j]
                t == trades[i]
                t2 == trades'[i]
            IN HitsStop(t, bar) =>
                  /\ t2.status = "CLOSED"
                  /\ t2.volume_open = 0
                  /\ t2.volume_closed = t2.volume
                  /\ t2.exit_price = t.stop_loss
                  /\ t2.comment = "Stop Loss"
                  /\ t2.exit_time = bar.time
                  /\ ~InList(i, pf'.open_trades)
                  /\ InList(i, pf'.closed_trades)
                  /\ ~InList(i, pf.closed_trades)]_vars

\* a trade was stopped by a bar that went through the stop and closed
\* elsewhere: the exit price is none of the bar's low, high and close
C5_Witness ==
    /\ call.op = "manage"
    /\ \E i \in 1..Len(trades) :
          /\ trades[i].exit_time = bar.time
          /\ trades[i].comment = "Stop Loss"
          /\ trades[i].status = "CLOSED"
          /\ trades[i].exit_price \notin {bar.low, bar.high, bar.close}
          /\ InList(i, pf.closed_trades)

\* C6: a bar that reaches the partial take-profit of a trade in status OPEN,
\* and neither its stop-loss nor its final take-profit, executes exactly one
\* partial close: the configured fraction of the open volume is closed at
\* take_profit_partial, stop_loss becomes entry_price, both flags become
\* true, status becomes PARTIAL_CLOSE and the trade stays in open_trades;
\* no later step closes a part of that trade again.
C6_PartialClose ==
    [][/\ pc = "manage" =>
            \A j \in 1..Len(pf.open_trades) :
               LET i == pf.open_trades[j]
                   t == trades[i]
                   t2 == trades'[i]
                   part == (t.volume_open * bt.partial_close_percent) \div 100
                   amount == TradePips(t, t.take_profit_partial)
                                * _get_pip_value(t.symbol, t.volume) * part
               IN (t.status = "OPEN" /\ HitsPartial(t, bar)
                      /\ ~HitsStop(t, bar) /\ ~HitsFinal(t, bar)) =>
                     /\ t2.volume_closed = part
                     /\ t2.volume_open = t.volume - part
                     /\ t2.profit = t.profit + amount
                     /\ t2.stop_loss = t.entry_price
                     /\ t2.break_even_triggered
                     /\ t2.partial_close_triggered
                     /\ t2.status = "PARTIAL_CLOSE"
                     /\ pf'.open_trades = pf.open_trades
                     /\ pf'.balance = pf.balance + amount
                           - pf.commission_per_lot
                               * ((t.volume * bt.partial_close_percent) \div 100)
       /\ \A i \in 1..Len(trades) :
             trades[i].partial_close_triggered =>
                /\ trades'[i].partial_close_triggered
                /\ \/ trades'[i].volume_closed = trades[i].volume_closed
                   \/ /\ trades'[i].status = "CLOSED"
                      /\ trades'[i].volume_closed = trades'[i].volume]_vars

\* a later bar reached the partial take-profit of a trade already closed in
\* part, and its management changed nothing
C6_Witness ==
    /\ call.op = "manage"
    /\ \E j \in 1..Len(pf.open_trades) :
          LET t == trades[pf.open_trades[j]]
          IN /\ t.status = "PARTIAL_CLOSE"
             /\ t.volume_open > 0
             /\ t.stop_loss = t.entry_price
             /\ HitsPartial(t, bar)
             /\ ~HitsStop(t, bar)
             /\ ~HitsFinal(t, bar)
             /\ pf.balance = pf.equity_curve[Len(pf.equity_curve)].balance

\* C7: when run returns, open_trades is empty and every trade opened during
\* the run is in closed_trades exactly once, with status CLOSED; a trade
\* still open after the last bar is closed at that bar's close and time with
\* comment "End of backtest".
C7_EndOfBacktest ==
    /\ [](pc = "done" =>
            /\ pf.open_trades = <<>>
            /\ \A i \in 1..Len(trades) :
                  /\ trades[i].status = "CLOSED"
                  /\ Cardinality({j \in 1..Len(pf.closed_trades) :
                                     pf.closed_trades[j] = i}) = 1)
    /\ [][(pc = "loop" /\ pc' = "done") =>
             \A j \in 1..Len(pf.open_trades) :
                LET t2 == trades'[pf.open_trades[j]]
                IN /\ t2.exit_price = bar.close
                   /\ t2.exit_time = bar.time
                   /\ t2.comment = "End of backtest"
                   /\ bar.time = BarTime(bt.data, bt.idx)]_vars

\* run has returned after closing, at the end of the data, a trade that was
\* opened before the last bar
C7_Witness ==
    /\ pc = "done"
    /\ \E i \in 1..Len(trades) :
          /\ trades[i].comment = "End of backtest"
          /\ trades[i].exit_time > trades[i].entry_time
          /\ trades[i].exit_price = bar.close

\* C11: once check_global_drawdown(max_drawdown_percent) has returned False
\* on a bar of a run, it returns False on every later bar on which it is
\* called, and no trade has an entry time after the first bar on which it
\* returned False.
C11_BreachIsFinal ==
    /\ [][(pc = "entry" /\ call.breached # None /\ ~call'.raised
              /\ call'.note # "daily") => call'.note = "drawdown"]_vars
    /\ [](call.breached # None =>
             \A i \in 1..Len(trades) : trades[i].entry_time <= call.breached)

\* C12: once the daily trade counter has reached max_daily_trades,
\* check_daily_limits returns False on every call of the rest of that
\* calendar date, and it returns True on the first check after the date
\* rollover has called reset_daily_stats.
C12_DailyTradeCap ==
    /\ [][(pc = "entry" /\ pf.daily_trades >= bt.max_daily_trades) =>
              (call'.note = "daily" /\ ~call'.raised)]_vars
    /\ [][(pc = "entry" /\ call.capped = DateOf(bar.time)) =>
              (call'.note = "daily" /\ ~call'.raised)]_vars
    /\ [][(pc = "entry" /\ call.capped # None /\ bt.idx > 1
              /\ call.capped # DateOf(bar.time)
              /\ call.capped = DateOf(BarTime(bt.data, bt.idx - 1))) =>
              (call'.note # "daily" /\ ~call'.raised)]_vars

\* the limits were checked on the first bar of the date after the one on
\* which the counter had reached max_daily_trades, and the daily check passed
C12_Witness ==
    /\ call.op = "entry"
    /\ call.capped # None
    /\ DateOf(bar.time) = call.capped + 1
    /\ DateOf(BarTime(bt.data, bt.idx - 1)) = call.capped
    /\ call.note # "daily"
    /\ Len(pf.closed_trades) >= bt.max_daily_trades

----------------------------------------------------------------------------
(* What the closes of a run realized on a trade, from its own fields *)

\* the volume that the run's partial close took off the trade
PartialVolume(t) ==
    IF t.partial_close_triggered
    THEN (t.volume * bt.partial_close_percent) \div 100
    ELSE 0

\* partial_profit of the partial close, made at take_profit_partial
RealizedPartial(t) ==
    TradePips(t, t.take_profit_partial) * _get_pip_value(t.symbol, t.volume)
        * PartialVolume(t)

\* final_profit of the close, made at exit_price on the rest of the volume
RealizedFinal(t) ==
    TradePips(t, t.exit_price) * _get_pip_value(t.symbol, t.volume)
        * (t.volume - PartialVolume(t))

\* C13: the profit field of a CLOSED trade is the accumulated realized
\* profit: what its partial close realized (if it had one) plus what its
\* final close realized, and nothing else.
C13_ProfitIsRealized ==
    \A i \in 1..Len(trades) :
        trades[i].status = "CLOSED" =>
            trades[i].profit = RealizedPartial(trades[i]) + RealizedFinal(trades[i])

\* C14: a trade closed by its original stop-loss, with no partial close
\* before, has profit < 0 after the "Stop Loss" close, whatever the close
\* price of the bar that reached the stop.
C14_StopLossLoses ==
    \A i \in 1..Len(trades) :
        (/\ trades[i].status = "CLOSED"
         /\ trades[i].comment = "Stop Loss"
         /\ ~trades[i].partial_close_triggered) => trades[i].profit < 0

\* C15: the commission deducted at each close event (partial or final) is
\* commission_per_lot times the volume closed by that event, so a trade pays
\* commission_per_lot x volume when it is opened and commission_per_lot x
\* volume over its close events, with or without a partial close.
C15_CommissionPerClose ==
    /\ [][\A i \in 1..Len(trades') :
              IF i <= Len(trades)
              THEN trades'[i].commission - trades[i].commission =
                       pf.commission_per_lot
                           * (trades'[i].volume_closed - trades[i].volume_closed)
              ELSE trades'[i].commission =
                       pf.commission_per_lot * trades'[i].volume]_vars
    /\ [](\A i \in 1..Len(trades) :
              trades[i].status = "CLOSED" =>
                  trades[i].commission =
                      2 * pf.commission_per_lot * trades[i].volume)

\* C16: a close event that closes volume v at p pips from the entry realizes
\* the gross amount p x pip_value(symbol, v), for every trade volume: the
\* amount is proportional to the volume closed.
C16_RealizedProportional ==
    [][(/\ call'.op \in {"close_trade", "partial_close_trade"}
        /\ ~call'.raised
        /\ InTrades(trades, call'.tid, pf.open_trades)) =>
          LET t == trades[call'.tid]
              t2 == trades'[call'.tid]
              v == t2.volume_closed - t.volume_closed
              gross == (pf'.balance - pf.balance) + (t2.commission - t.commission)
          IN gross = TradePips(t, call'.price) * _get_pip_value(t.symbol, v)
                         * PipValueUnit]_vars

\* C17: after a partial close has moved the stop-loss to the entry price,
\* the final close of the trade, by the stop at break-even, the final
\* take-profit or the end of the backtest, never realizes a negative gross
\* amount: the exit price is not on the losing side of the entry price.
C17_NoDownsideAfterBreakEven ==
    \A i \in 1..Len(trades) :
        (/\ trades[i].status = "CLOSED"
         /\ trades[i].partial_close_triggered
         /\ trades[i].break_even_triggered) =>
            /\ TradePips(trades[i], trades[i].exit_price) >= 0
            /\ RealizedFinal(trades[i]) >= 0

\* C18: Trade.close, Trade.close_partial and Trade.update_profit called on
\* a trade whose status is CLOSED return 0.0 (close, close_partial) and
\* leave every field of the trade unchanged.
C18_ClosedTradeNoOp ==
    [][(/\ trades[1].status = "CLOSED"
        /\ call'.op \in {"close", "close_partial", "update_profit"}) =>
          (trades' = trades /\ call'.ret = 0)]_vars

\* close was called on a trade that had been closed at another price
C18_Witness ==
    /\ call.op = "close"
    /\ trades[1].status = "CLOSED"
    /\ trades[1].exit_price # call.price
    /\ call.ret = 0

\* C19: Portfolio.close_trade and Portfolio.partial_close_trade called with
\* a trade that is not in open_trades (never added, or already moved to
\* closed_trades) change nothing, the portfolio's balance, counters and
\* collections and the trade included, and raise no exception.
C19_NotOpenNoOp ==
    [][(/\ call'.op \in {"close_trade", "partial_close_trade"}
        /\ ~InList(call'.tid, pf.open_trades)) =>
          (pf' = pf /\ trades' = trades /\ ~call'.raised)]_vars

\* the number of places of a list that hold i
CountIn(i, lst) == Cardinality({j \in 1..Len(lst) : lst[j] = i})

\* C20: at every point of a run each trade added to the ledger is in
\* exactly one of open_trades and closed_trades, and closed_trades only
\* grows: trades are appended at its end, in the order they close, and none
\* is removed or moved.
C20_OpenXorClosed ==
    /\ [](\A i \in 1..Len(trades) :
              CountIn(i, pf.open_trades) + CountIn(i, pf.closed_trades) = 1)
    /\ [](\A j, k \in 1..Len(pf.closed_trades) :
              j < k => trades[pf.closed_trades[j]].exit_time
                          <= trades[pf.closed_trades[k]].exit_time)
    /\ [][/\ Len(pf'.closed_trades) >= Len(pf.closed_trades)
          /\ SubSeq(pf'.closed_trades, 1, Len(pf.closed_trades)) = pf.closed_trades
          /\ \A j \in (Len(pf.closed_trades) + 1)..Len(pf'.closed_trades) :
                 /\ InList(pf'.closed_trades[j], pf.open_trades)
                 /\ trades'[pf'.closed_trades[j]].status = "CLOSED"
                 /\ trades[pf'.closed_trades[j]].status # "CLOSED"]_vars

\* a second trade has just been moved to closed_trades, behind the one that
\* closed a bar earlier
C20_Witness ==
    /\ call.op = "manage"
    /\ Len(pf.closed_trades) = 2
    /\ pf.open_trades = <<>>
    /\ trades[pf.closed_trades[1]].exit_time < trades[pf.closed_trades[2]].exit_time
    /\ trades[pf.closed_trades[2]].exit_time = bar.time

\* C21: the trades created in one run have the tickets 1, 2, 3, ... in the
\* order of their creation, and ticket_counter advances, by one, exactly on
\* the steps that create a trade.
C21_TicketSequence ==
    /\ [](\A i \in 1..Len(trades) : trades[i].ticket = i)
    /\ [](bt.ticket_counter = Len(trades) + 1)
    /\ [][/\ Len(trades') \in {Len(trades), Len(trades) + 1}
          /\ bt'.ticket_counter = bt.ticket_counter + (Len(trades') - Len(trades))
          /\ (Len(trades') > Len(trades) => call'.note \in {"BUY", "SELL"})]_vars

\* a second trade was created, after bars whose entry step created none
C21_Witness ==
    /\ call.op = "entry"
    /\ call.note \in {"BUY", "SELL"}
    /\ Len(trades) = 2
    /\ trades[2].entry_time = bar.time
    /\ trades[2].ticket = 2
    /\ bt.idx = 3

\* C22: every trade opened by a run has an entry time whose time of day is
\* in [london_start, london_end) or in [ny_start, ny_end); the entry step of
\* a bar at a session's end hour opens no trade.
C22_EntryInSession ==
    /\ [](\A i \in 1..Len(trades) :
             LET h == trades[i].entry_time % 24
             IN \/ (bt.london_start <= h /\ h < bt.london_end)
                \/ (bt.ny_start <= h /\ h < bt.ny_end))
    /\ [][(pc = "entry" /\ bar.time % 24 \in {bt.london_end, bt.ny_end}) =>
              (trades' = trades /\ pf' = pf)]_vars

\* a trade was opened on the bar at london_start, and the bar at ny_end
\* passed the limits and was refused by the session test
C22_Witness ==
    /\ call.op = "entry"
    /\ call.note = "session"
    /\ bar.time % 24 = bt.ny_end
    /\ Len(trades) = 1
    /\ trades[1].entry_time % 24 = bt.london_start

----------------------------------------------------------------------------
(* The rows a call of get_signal is about, read off the frames *)

\* the index of the latest row with time <= time, 0 when there is none
LastIndex(data, time) ==
    LET upto == {k \in 1..Len(data) : data[k].time <= time}
    IN IF upto = {} THEN 0
       ELSE CHOOSE k \in upto : \A j \in upto : data[j].time <= data[k].time

\* every timeframe has a bar at or before time, and M1 has two
EnoughData(time) ==
    /\ LastIndex(bt.data_m1, time) >= 2
    /\ LastIndex(bt.data_m5, time) >= 1
    /\ LastIndex(bt.data_m15, time) >= 1

M1Current(time) == bt.data_m1[LastIndex(bt.data_m1, time)]

M1Previous(time) == bt.data_m1[LastIndex(bt.data_m1, time) - 1]

M5Current(time) == bt.data_m5[LastIndex(bt.data_m5, time)]

M15Current(time) == bt.data_m15[LastIndex(bt.data_m15, time)]

\* the four steps agree on a buy
BuyAgreed(time) ==
    LET e == bt.signal_engine
        m15 == M15Current(time)
        m5 == M5Current(time)
        m1 == M1Current(time)
        prev == M1Previous(time)
    IN /\ FloatGT(m15.ema_fast, m15.ema_slow)
       /\ FloatGT(m5.ema_fast, m5.ema_slow)
       /\ PriceGTVwap(m5.close, m5.vwap)
       /\ FloatLE(e.rsi_buy_min, m5.rsi) /\ FloatLE(m5.rsi, e.rsi_buy_max)
       /\ FloatLE(prev.stoch_k, e.stoch_oversold)
       /\ FloatLE(prev.stoch_k, prev.stoch_d)
       /\ FloatGT(m1.stoch_k, m1.stoch_d)
       /\ FloatGE(m1.atr, e.min_atr)

\* the four steps agree on a sell
SellAgreed(time) ==
    LET e == bt.signal_engine
        m15 == M15Current(time)
        m5 == M5Current(time)
        m1 == M1Current(time)
        prev == M1Previous(time)
    IN /\ FloatLT(m15.ema_fast, m15.ema_slow)
       /\ FloatLT(m5.ema_fast, m5.ema_slow)
       /\ PriceLTVwap(m5.close, m5.vwap)
       /\ FloatLE(e.rsi_sell_min, m5.rsi) /\ FloatLE(m5.rsi, e.rsi_sell_max)
       /\ FloatGE(prev.stoch_k, e.stoch_overbought)
       /\ FloatGE(prev.stoch_k, prev.stoch_d)
       /\ FloatLT(m1.stoch_k, m1.stoch_d)
       /\ FloatGE(m1.atr, e.min_atr)

\* C23: get_signal returns BUY exactly when the M15 trend, the M5
\* confirmation, the M1 stochastic cross out of the oversold zone and the
\* ATR all agree on a buy, SELL exactly under the mirrored conditions, and
\* NONE in every other case.
C23_SignalExact ==
    (call.op = "get_signal" /\ EnoughData(call.time)) =>
        /\ (call.note = "BUY") <=> BuyAgreed(call.time)
        /\ (call.note = "SELL") <=> SellAgreed(call.time)
        /\ (call.note = "NONE") <=> (~BuyAgreed(call.time) /\ ~SellAgreed(call.time))

\* a BUY returned with every inclusive comparison on its threshold
C23_Witness ==
    /\ call.op = "get_signal"
    /\ call.note = "BUY"
    /\ M5Current(call.time).rsi = bt.signal_engine.rsi_buy_min
    /\ M1Previous(call.time).stoch_k = bt.signal_engine.stoch_oversold
    /\ M1Previous(call.time).stoch_k = M1Previous(call.time).stoch_d
    /\ M1Current(call.time).atr = bt.signal_engine.min_atr

\* C24: when the M15 EMA-fast equals the M15 EMA-slow on the bar that is
\* evaluated, the trend is NEUTRAL and get_signal returns NONE, whatever the
\* M5 and M1 values are.
C24_TieIsNeutral ==
    (/\ call.op = "get_signal"
     /\ EnoughData(call.time)
     /\ ~IsNaN(M15Current(call.time).ema_fast)
     /\ M15Current(call.time).ema_fast = M15Current(call.time).ema_slow) =>
        /\ call.note = "NONE"
        /\ _analyze_m15_trend(M15Current(call.time)) = "NEUTRAL"
        /\ (call.stats # NoDetails => call.stats.m15_trend = "NEUTRAL")

\* an M15 tie under an M5 bar and M1 bars that agree on a buy
C24_Witness ==
    /\ call.op = "get_signal"
    /\ call.stats # NoDetails
    /\ call.stats.m15_trend = "NEUTRAL"
    /\ M15Current(call.time).ema_fast = M15Current(call.time).ema_slow
    /\ M5Current(call.time).ema_fast > M5Current(call.time).ema_slow
    /\ call.stats.m1_entry = "BUY"
    /\ call.stats.atr >= bt.signal_engine.min_atr
    /\ call.note = "NONE"

\* an indicator value that get_signal uses at time is NaN
UndefinedValue(time) ==
    \/ IsNaN(M15Current(time).ema_fast) \/ IsNaN(M15Current(time).ema_slow)
    \/ IsNaN(M5Current(time).ema_fast) \/ IsNaN(M5Current(time).ema_slow)
    \/ IsNaN(M5Current(time).rsi) \/ VwapIsNaN(M5Current(time).vwap)
    \/ IsNaN(M1Current(time).stoch_k) \/ IsNaN(M1Current(time).stoch_d)
    \/ IsNaN(M1Current(time).atr)
    \/ IsNaN(M1Previous(time).stoch_k) \/ IsNaN(M1Previous(time).stoch_d)

\* C25: get_signal evaluates each timeframe on its latest bar with
\* time <= current_time, and the M1 bar before it, and returns NONE without
\* raising when a timeframe has no such bar, when M1 has fewer than two or
\* when an indicator value it uses is NaN.
C25_InsufficientIsNone ==
    call.op = "get_signal" =>
        /\ ~call.raised
        /\ ~EnoughData(call.time) => (call.note = "NONE" /\ call.stats = NoDetails)
        /\ (EnoughData(call.time) /\ UndefinedValue(call.time)) => call.note = "NONE"
        /\ call.stats # NoDetails =>
              /\ EnoughData(call.time)
              /\ call.stats.price = M1Current(call.time).close
              /\ call.stats.atr = M1Current(call.time).atr
              /\ call.stats.m1_stoch_k = M1Current(call.time).stoch_k
              /\ call.stats.m1_stoch_d = M1Current(call.time).stoch_d
              /\ call.stats.m5_rsi = M5Current(call.time).rsi
              /\ call.stats.m5_vwap = M5Current(call.time).vwap
              /\ call.stats.m15_ema_fast = M15Current(call.time).ema_fast
              /\ call.stats.m15_ema_slow = M15Current(call.time).ema_slow
              /\ call.stats.m1_entry =
                     _analyze_m1_entry(bt.signal_engine, M1Current(call.time),
                                       M1Previous(call.time))

\* a call at the time of the first M1 bar, with the M5 and M15 bars there
\* and later M1 bars that make a buy entry
C25_Witness ==
    /\ call.op = "get_signal"
    /\ LastIndex(bt.data_m1, call.time) = 1
    /\ LastIndex(bt.data_m5, call.time) = 1
    /\ LastIndex(bt.data_m15, call.time) = 1
    /\ Len(bt.data_m1) = 3
    /\ _analyze_m1_entry(bt.signal_engine, bt.data_m1[3], bt.data_m1[2]) = "BUY"
    /\ call.note = "NONE"
    /\ call.stats = NoDetails

\* C26: get_signal changes neither the engine's fields nor the three
\* frames, and a call with the same current_time and the same frames as the
\* call before it returns the same signal and the same details.
C26_GetSignalPure ==
    [][call'.op = "get_signal" =>
          /\ bt'.signal_engine = bt.signal_engine
          /\ bt'.data_m1 = bt.data_m1
          /\ bt'.data_m5 = bt.data_m5
          /\ bt'.data_m15 = bt.data_m15
          /\ (call.op = "get_signal" /\ call'.time = call.time) =>
                (call'.note = call.note /\ call'.stats = call.stats)]_vars

\* a second call about the same time returned BUY again
C26_Witness ==
    /\ call.op = "get_signal"
    /\ call.n = 2
    /\ call.note = "BUY"
    /\ call.stats # NoDetails

\* the sum of (high + low + close) over the n rows of df that end at row k
RECURSIVE TypicalSum(_, _, _)
TypicalSum(df, k, n) ==
    IF n = 0 THEN 0
    ELSE df[k].high + df[k].low + df[k].close + TypicalSum(df, k - 1, n - 1)

\* C27: when the M5 volume is zero throughout, the vwap of a bar with
\* VwapWindow bars up to it is the mean of their typical prices, not NaN,
\* so a call of get_signal on it is not invalidated by the VWAP.
C27_ZeroVolumeFallback ==
    (/\ call.op = "get_signal"
     /\ EnoughData(call.time)
     /\ LastIndex(bt.data_m5, call.time) >= VwapWindow
     /\ \A k \in 1..Len(bt.data_m5) : bt.data_m5[k].volume = 0) =>
        LET k == LastIndex(bt.data_m5, call.time)
            vwap == bt.data_m5[k].vwap
        IN /\ ~VwapIsNaN(vwap)
           /\ vwap.n * 3 * VwapWindow = TypicalSum(bt.data_m5, k, VwapWindow) * vwap.d
           /\ call.stats # NoDetails

\* a metric is 0.0
ZeroFrac(f) == f.n = 0 /\ f.d # 0

\* C28: with no closed trade Statistics.calculate_all and
\* calculate_consecutive_stats return zero-valued metrics, whatever the
\* equity curve, and a run that never opens a trade completes and returns
\* statistics with total_trades, win_rate, profit_factor, expectancy and
\* net_profit 0.
C28_EmptyStatistics ==
    /\ calculate_all(trades, <<>>, pf.equity_curve) = _empty_stats
    /\ calculate_consecutive_stats(trades, <<>>) =
           [max_consecutive_wins |-> 0, max_consecutive_losses |-> 0,
            current_streak |-> 0]
    /\ trades = <<>> => pc # "raised"
    /\ (pc = "done" /\ trades = <<>>) =>
          /\ call.stats.total_trades = 0
          /\ ZeroFrac(call.stats.win_rate)
          /\ ZeroFrac(call.stats.profit_factor)
          /\ ZeroFrac(call.stats.expectancy)
          /\ call.stats.net_profit = 0
    /\ (pc = "reported" /\ trades = <<>>) =>
          /\ call.stats.total_trades = 0
          /\ call.stats.winning_trades = 0 /\ call.stats.losing_trades = 0
          /\ ZeroFrac(call.stats.win_rate)
          /\ ZeroFrac(call.stats.profit_factor)
          /\ ZeroFrac(call.stats.expectancy)
          /\ call.stats.net_profit = 0
          /\ call.stats.gross_profit = 0 /\ call.stats.gross_loss = 0
          /\ call.stats.max_drawdown = 0
          /\ ZeroFrac(call.stats.max_drawdown_percent)
          /\ call.stats.max_consecutive_wins = 0
          /\ call.stats.max_consecutive_losses = 0
          /\ call.stats.current_streak = 0

\* a run over all the bars of the data that opened no trade has returned
\* its statistics
C28_Witness ==
    /\ pc = "done"
    /\ trades = <<>>
    /\ bt.idx = bt.data.rows
    /\ Len(pf.equity_curve) = bt.data.rows
    /\ call.stats.total_trades = 0

\* one of the three tests of _check_limits refuses the bar
LimitsRefuse ==
    \/ pf.daily_trades >= bt.max_daily_trades
    \/ /\ pf.daily_profit < 0
       /\ Abs(pf.daily_profit) * 100 * bt.max_daily_drawdown_percent.d >=
             bt.max_daily_drawdown_percent.n * pf.balance
    \/ pf.max_drawdown_percent.n * bt.max_drawdown_percent.d >=
          bt.max_drawdown_percent.n * pf.max_drawdown_percent.d
    \/ Len(pf.open_trades) >= 1

\* C29: on a bar that the daily limits, the global drawdown or an open
\* trade refuse, no signal is requested and no trade is opened; the bar's
\* equity update and its stop-loss and take-profit checks came before, and
\* every later bar is managed in the same way.
C29_LimitsGateEntriesOnly ==
    /\ [][(pc = "entry" /\ pf.balance > 0 /\ LimitsRefuse) =>
              /\ trades' = trades /\ pf' = pf /\ bt' = bt
              /\ call'.note \in {"daily", "drawdown", "position"}]_vars
    /\ [][pc' = "entry" => (pc = "manage" /\ call.op = "update_equity"
                               /\ call.time = bar.time)]_vars
    /\ [][(pc = "loop" /\ bt'.idx # bt.idx) =>
              (pc' = "manage" /\ call'.op = "update_equity")]_vars
    /\ [][pc = "manage" =>
              \A j \in 1..Len(pf.open_trades) :
                 LET i == pf.open_trades[j]
                     t == trades[i]
                     t2 == trades'[i]
                 IN /\ (HitsStop(t, bar) \/ HitsFinal(t, bar)) =>
                          (t2.status = "CLOSED" /\ t2.exit_time = bar.time)
                    /\ (~HitsStop(t, bar) /\ ~HitsFinal(t, bar) /\ HitsPartial(t, bar)) =>
                          t2.partial_close_triggered]_vars

\* a trade that was open on the bar on which check_global_drawdown first
\* returned False was stopped on a later bar
C29_Witness ==
    /\ call.op = "manage"
    /\ call.breached # None
    /\ call.breached < bar.time
    /\ \E i \in 1..Len(trades) :
          /\ trades[i].entry_time < call.breached
          /\ trades[i].exit_time = bar.time
          /\ trades[i].comment = "Stop Loss"

\* C30: close_trade and partial_close_trade add to daily_profit exactly the
\* net amount they add to balance.
C30_DailyProfitFollowsBalance ==
    [][(call'.op \in {"close_trade", "partial_close_trade"} /\ ~call'.raised) =>
          pf'.daily_profit - pf.daily_profit = pf'.balance - pf.balance]_vars

----------------------------------------------------------------------------
(* A client that builds a Backtester on a balance that may be zero or      *)
(* negative, with a stop distance that may be zero, and calls _open_trade  *)
(* once for a BUY or SELL signal                                           *)

\* balances of -1, 0, 0.1, 10, 15, 25, 40 and 1000 USD
LotBalances == {0 - 4000, 0, 400, 40000, 60000, 100000, 160000, 4000000}

\* Backtester(symbol, initial_balance, risk_per_trade=1.0 or 50.0,
\* stop_loss_pips=0, 1, 2 or 12)
LotConfigs ==
    {[symbol |-> "EURUSD", initial_balance |-> b, leverage |-> 100,
      commission_per_lot |-> 0, spread_pips |-> 1, risk_per_trade |-> r,
      max_drawdown_percent |-> Frac(10, 1),
      max_daily_drawdown_percent |-> Frac(3, 1),
      max_daily_trades |-> 2, stop_loss_pips |-> s,
      rr_partial |-> 2, rr_final |-> 3, partial_close_percent |-> 50,
      london_start |-> 8, london_end |-> 12,
      ny_start |-> 13, ny_end |-> 17] :
        b \in LotBalances, r \in {1, 50}, s \in {0, 1, 2, 12}}

\* the M1 row of 08:00 that the signal is about
LotRows == {[time |-> 8, high |-> c + 1, low |-> c - 1, close |-> c] : c \in {20, 30}}

InitLot ==
    /\ trades = <<>>
    /\ \E cfg \in LotConfigs :
         /\ pf = NewPortfolio(cfg.initial_balance, cfg.leverage,
                              cfg.commission_per_lot, cfg.spread_pips)
         /\ bt = NewBacktester(cfg, [start |-> 8, step |-> 1, gap |-> 0, rows |-> 1,
                                     prices |-> {20, 30}])
    /\ bar = NoBar
    /\ pc = "lot"
    /\ call = NoCall

\* self._open_trade(signal, row, current_time)
LotOpenTrade ==
    /\ pc = "lot"
    /\ \E signal \in {"BUY", "SELL"}, row \in LotRows :
         LET r == _open_trade(bt, pf, trades, signal, row, row.time)
         IN /\ bar' = row
            /\ bt' = r.bt
            /\ pf' = r.pf
            /\ trades' = r.trades
            /\ call' = [NoCall EXCEPT !.op = "_open_trade", !.note = signal,
                                      !.time = row.time]
    /\ pc' = "opened"

NextLot == LotOpenTrade

SpecLot == InitLot /\ [][NextLot]_vars

\* the volume of trade t is h hundredths of a lot, h the whole number nearest
\* to balance x risk% / (SL pips x 10) and 1 when that number is under 1
SizedByRisk(t, balance, risk) ==
    LET pips == Abs(t.entry_price - t.stop_loss)
        n == balance * risk
        d == 40000 * pips
        h == t.volume \div 2
    IN /\ t.volume = 2 * h
       /\ h >= 1
       /\ IF pips = 0 THEN h = 1
          ELSE \/ h = 1 /\ 2 * n <= 3 * d
               \/ 2 * Abs(h * d - n) <= d

\* C32: every call of _open_trade for a BUY or SELL signal opens a trade, and
\* every trade opened has a volume of at least 0.01 lot that is a multiple
\* of 0.01 lot: the nearest hundredth to balance x risk_per_trade% /
\* (SL pips x 10), 0.01 when that is smaller (a zero or negative balance
\* included) and 0.01 when the SL distance is zero
C32_LotSizeFloor ==
    /\ [](\A i \in 1..Len(trades) :
            SizedByRisk(trades[i], pf.initial_balance, bt.risk_per_trade))
    /\ [][pc = "lot" => /\ Len(trades') = Len(trades) + 1
                        /\ trades'[Len(trades')].volume >= 2]_vars

\* a trade of 0.01 lot opened on a negative balance with a stop distance
\* above zero
C32_Witness ==
    /\ pc = "opened"
    /\ Len(trades) = 1
    /\ trades[1].volume = 2
    /\ pf.initial_balance < 0
    /\ bt.stop_loss_pips > 0

----------------------------------------------------------------------------
\* the number of trades of the run that were opened on calendar date d
OpenedOn(d) ==
    Cardinality({i \in 1..Len(trades) : DateOf(trades[i].entry_time) = d})

\* C34: in any run the number of trades opened on one calendar date never
\* exceeds max_daily_trades; the entry step, which opens the trades, leaves
\* the daily counter alone, and the management step adds one to it for every
\* trade it closes, whatever the date on which that trade was opened
C34_OpensPerDateCapped ==
    /\ [](\A i \in 1..Len(trades) :
            OpenedOn(DateOf(trades[i].entry_time)) <= bt.max_daily_trades)
    /\ [][pc = "entry" => pf'.daily_trades = pf.daily_trades]_vars
    /\ [][pc = "manage" =>
            pf'.daily_trades = pf.daily_trades
                + (Len(pf'.closed_trades) - Len(pf.closed_trades))]_vars

\* an entry was refused by the daily cap on a date on which fewer than
\* max_daily_trades trades were opened, a trade opened on an earlier date
\* having closed on it
C34_Witness ==
    /\ call.op = "entry"
    /\ call.note = "daily"
    /\ OpenedOn(DateOf(call.time)) < bt.max_daily_trades
    /\ \E i \in 1..Len(trades) :
         /\ trades[i].status = "CLOSED"
         /\ DateOf(trades[i].exit_time) = DateOf(call.time)
         /\ DateOf(trades[i].entry_time) < DateOf(call.time)

----------------------------------------------------------------------------
\* C35: a bar is managed before any trade is opened on it, so a trade opened
\* on bar k is first tested on bar k+1: a bar that reaches the stop of an
\* open trade closes it at that bar's time, a trade partially closed on a bar
\* leaves that bar open with its stop at the entry price, whatever the bar's
\* range, and every trade closed by "Stop Loss" or "Take Profit Final" has
\* an exit time after its entry time
C35_ManagedFromNextBar ==
    /\ [][pc = "manage" =>
            \A i \in 1..Len(trades) : trades[i].entry_time < bar.time]_vars
    /\ [][pc = "manage" =>
            \A j \in 1..Len(pf.open_trades) :
               LET t == trades[pf.open_trades[j]]
                   t2 == trades'[pf.open_trades[j]]
               IN /\ HitsStop(t, bar) =>
                        /\ t2.status = "CLOSED"
                        /\ t2.comment = "Stop Loss"
                        /\ t2.exit_time = bar.time
                  /\ (t2.partial_close_triggered /\ ~t.partial_close_triggered) =>
                        /\ t2.status # "CLOSED"
                        /\ t2.stop_loss = t2.entry_price]_vars
    /\ [][pc = "entry" =>
            \A i \in 1..Len(trades') :
               i > Len(trades) => /\ trades'[i].entry_time = bar.time
                                  /\ trades'[i].status = "OPEN"]_vars
    /\ [](\A i \in 1..Len(trades) :
            (trades[i].status = "CLOSED"
                /\ trades[i].comment \in {"Stop Loss", "Take Profit Final"}) =>
            trades[i].exit_time > trades[i].entry_time)

\* a bar has just been managed that took the partial close of a trade and
\* whose range also holds the entry price, to which the stop was moved: the
\* trade is still open
C35_Witness ==
    /\ call.op = "manage"
    /\ \E i \in 1..Len(trades) :
         /\ trades[i].partial_close_triggered
         /\ trades[i].status # "CLOSED"
         /\ trades[i].exit_time = None
         /\ trades[i].stop_loss = trades[i].entry_price
         /\ HitsStop(trades[i], bar)

----------------------------------------------------------------------------
\* C36: when run returns no position is open, and the final_equity of the
\* results equals their final_balance
C36_FinalEquityIsBalance ==
    (pc = "done") =>
        /\ pf.open_trades = <<>>
        /\ call.stats.final_equity = call.stats.final_balance

----------------------------------------------------------------------------
\* what the partial and final closes of the closed trade t added to balance:
\* the amounts realized, less the commissions charged after the opening one
NetRealized(t) ==
    RealizedPartial(t) + RealizedFinal(t)
        - (t.commission - pf.commission_per_lot * t.volume)

\* C37: the ledger counts a closed trade as winning exactly when the total
\* that its partial and final closes added to balance is positive, and as
\* losing otherwise
C37_WinnerByNetTotal ==
    /\ pf.winning_trades =
          Cardinality({j \in 1..Len(pf.closed_trades) :
                          NetRealized(trades[pf.closed_trades[j]]) > 0})
    /\ pf.losing_trades =
          Cardinality({j \in 1..Len(pf.closed_trades) :
                          NetRealized(trades[pf.closed_trades[j]]) <= 0})

----------------------------------------------------------------------------
\* C38: for the closed trades of a run, the net_profit and the
\* winning_trades that Statistics.calculate_all computes from the trade list
\* equal those that Portfolio.get_statistics reports
C38_ProducersAgree ==
    (pc = "reported") =>
        /\ call.stats.net_profit = get_statistics(pf).net_profit
        /\ call.stats.winning_trades = get_statistics(pf).winning_trades

----------------------------------------------------------------------------
(* A client that builds Statistics on an equity curve and calls            *)
(* _drawdown_stats; equity in units of 100 USD                             *)

\* the most records in the equity curve
MaxCurve == 4

\* equities of 9800, 10000, 10200 and 10500 USD
CurveValues == {98, 100, 102, 105}

\* the equity curves: record k at hour k
Curves ==
    UNION {[1..n -> CurveValues] : n \in 0..MaxCurve}

CurveRecords(eq) ==
    [k \in 1..Len(eq) |-> [time |-> k, balance |-> eq[k], equity |-> eq[k],
                           floating_pl |-> 0]]

\* Statistics(trades=[], equity_curve)
InitCurve ==
    /\ trades = <<>>
    /\ \E eq \in Curves : pf = [DefaultPortfolio EXCEPT !.equity_curve = CurveRecords(eq)]
    /\ bt = NoBacktester
    /\ bar = NoBar
    /\ pc = "statistics"
    /\ call = NoCall

\* self._drawdown_stats()
StatDrawdown ==
    /\ pc = "statistics"
    /\ call' = [NoCall EXCEPT !.op = "_drawdown_stats",
                              !.stats = _drawdown_stats(pf.equity_curve)]
    /\ pc' = "computed"
    /\ UNCHANGED <<trades, pf, bt, bar>>

NextCurve == StatDrawdown

SpecCurve == InitCurve /\ [][NextCurve]_vars

\* the largest equity over records 1..i of the curve
PeakAt(i) ==
    LET seen == {pf.equity_curve[j].equity : j \in 1..i}
    IN CHOOSE m \in seen : \A e \in seen : e <= m

DrawdownAt(i) == PeakAt(i) - pf.equity_curve[i].equity

\* C33: on an equity curve with records, the max_drawdown of
\* _drawdown_stats is the largest of the drawdowns peak_i - equity_i, peak_i
\* the largest equity over records up to i, and its max_drawdown_percent is
\* the largest of the drawdown_i / peak_i x 100
C33_DrawdownFromRunningPeak ==
    (call.op = "_drawdown_stats" /\ Len(pf.equity_curve) > 0) =>
        LET rows == 1..Len(pf.equity_curve)
            pct == call.stats.max_drawdown_percent
        IN /\ \E i \in rows : call.stats.max_drawdown = DrawdownAt(i)
           /\ \A i \in rows : DrawdownAt(i) <= call.stats.max_drawdown
           /\ pct.d > 0
           /\ \E i \in rows : pct.n * PeakAt(i) = DrawdownAt(i) * 100 * pct.d
           /\ \A i \in rows : DrawdownAt(i) * 100 * pct.d <= pct.n * PeakAt(i)

\* the curve 10000, 10500, 9800, 10200: peaks 10000, 10500, 10500, 10500,
\* drawdowns 0, 0, 700, 300, maximum 700 and 700 / 10500 x 100 percent
C33_Witness ==
    /\ call.op = "_drawdown_stats"
    /\ Len(pf.equity_curve) = 4
    /\ [k \in 1..4 |-> pf.equity_curve[k].equity] = <<100, 105, 98, 102>>
    /\ [k \in 1..4 |-> PeakAt(k)] = <<100, 105, 105, 105>>
    /\ [k \in 1..4 |-> DrawdownAt(k)] = <<0, 0, 7, 3>>
    /\ call.stats.max_drawdown = 7
    /\ call.stats.max_drawdown_percent.n * 105 = 700 * call.stats.max_drawdown_percent.d

----------------------------------------------------------------------------
(* signal_engine_bt.py: the indicator columns, computed from the bars.     *)
(* Prices in pips; every value of a column is a fraction [n, d], exact,    *)
(* and NaN is the fraction with d = 0.                                     *)

NaNFrac == Frac(0, 0)

FracAdd(a, b) ==
    IF a.d = 0 \/ b.d = 0 THEN NaNFrac
    ELSE Frac(a.n * b.d + b.n * a.d, a.d * b.d)

\* series.ewm(span=span, adjust=False).mean() at row k, for a series x
\* without NaN: y[1] = x[1], y[k] = (1 - a) * y[k-1] + a * x[k] with
\* a = 2 / (span + 1)
RECURSIVE Ewm(_, _, _)
Ewm(x, span, k) ==
    IF k = 1 THEN Frac(x[1], 1)
    ELSE LET prev == Ewm(x, span, k - 1)
         IN Frac((span - 1) * prev.n + 2 * x[k] * prev.d, (span + 1) * prev.d)

\* series.rolling(window=window).mean() at row k, for a series x of
\* fractions: NaN until the window is full and while it holds a NaN
RECURSIVE WindowSum(_, _, _)
WindowSum(x, k, j) ==
    IF j = 0 THEN Frac(0, 1)
    ELSE FracAdd(WindowSum(x, k - 1, j - 1), x[k])

RollingMean(x, window, k) ==
    IF k < window THEN NaNFrac
    ELSE LET s == WindowSum(x, k, window)
         IN IF s.d = 0 THEN NaNFrac ELSE Frac(s.n, s.d * window)

\* series.rolling(window=window).min() and .max() at row k >= window
RollingMin(x, window, k) ==
    LET seen == {x[j] : j \in (k - window + 1)..k}
    IN CHOOSE m \in seen : \A v \in seen : m <= v

RollingMax(x, window, k) ==
    LET seen == {x[j] : j \in (k - window + 1)..k}
    IN CHOOSE m \in seen : \A v \in seen : v <= m

\* the values of column name over the first n rows of df
RECURSIVE ColumnRows(_, _, _)
ColumnRows(df, name, n) ==
    IF n = 0 THEN <<>> ELSE Append(ColumnRows(df, name, n - 1), df[n][name])

Column(df, name) == ColumnRows(df, name, Len(df))

\* the first n rows of df with the values col as column name
RECURSIVE WithColumnRows(_, _, _, _)
WithColumnRows(df, name, col, n) ==
    IF n = 0 THEN <<>>
    ELSE Append(WithColumnRows(df, name, col, n - 1), (name :> col[n]) @@ df[n])

WithColumn(df, name, col) == WithColumnRows(df, name, col, Len(df))

_add_ema(df, period, column_name) ==
    WithColumn(df, column_name,
               [k \in 1..Len(df) |-> Ewm(Column(df, "close"), period, k)])

\* delta = close.diff() is NaN on the first row, where both "where" give 0.0;
\* avg_gain and avg_loss have the same denominator, so rs is the quotient of
\* their numerators: 0/0 gives NaN, rs = inf gives 100 - 100 / inf = 100
_add_rsi(df, period) ==
    LET delta(k) == IF k = 1 THEN 0 ELSE df[k].close - df[k - 1].close
        gain == [k \in 1..Len(df) |-> IF delta(k) > 0 THEN delta(k) ELSE 0]
        loss == [k \in 1..Len(df) |-> IF delta(k) < 0 THEN 0 - delta(k) ELSE 0]
        rsi(k) ==
            LET avg_gain == Ewm(gain, period, k)
                avg_loss == Ewm(loss, period, k)
            IN IF avg_gain.n = 0 /\ avg_loss.n = 0 THEN NaNFrac
               ELSE IF avg_loss.n = 0 THEN Frac(100, 1)
               ELSE Frac(100 * avg_gain.n, avg_gain.n + avg_loss.n)
    IN WithColumn(df, "rsi", [k \in 1..Len(df) |-> rsi(k)])

\* 100 * (close - low_min) / (high_max - low_min) is NaN until the window
\* is full and 0/0 = NaN on a window without range (the close of a bar lies
\* between its low and its high)
_add_stochastic(df, k_period, d_period, slowing) ==
    LET raw(k) ==
            IF k < k_period THEN NaNFrac
            ELSE LET low_min == RollingMin(Column(df, "low"), k_period, k)
                     high_max == RollingMax(Column(df, "high"), k_period, k)
                 IN IF high_max = low_min THEN NaNFrac
                    ELSE Frac(100 * (df[k].close - low_min), high_max - low_min)
        raw_k == [k \in 1..Len(df) |-> raw(k)]
        stoch_k == [k \in 1..Len(df) |-> RollingMean(raw_k, slowing, k)]
        stoch_d == [k \in 1..Len(df) |-> RollingMean(stoch_k, d_period, k)]
    IN WithColumn(WithColumn(df, "stoch_k", stoch_k), "stoch_d", stoch_d)

\* the largest of three numbers
Max3(a, b, c) ==
    IF a >= b /\ a >= c THEN a ELSE IF b >= c THEN b ELSE c

\* _add_atr taking the previous close from the row after: close.shift(-1)
_add_atr_next_close(df, period) ==
    LET tr(k) == IF k = Len(df) THEN df[k].high - df[k].low
                 ELSE Max3(df[k].high - df[k].low,
                           Abs(df[k].high - df[k + 1].close),
                           Abs(df[k].low - df[k + 1].close))
        true_range == [k \in 1..Len(df) |-> tr(k)]
    IN WithColumn(df, "atr", [k \in 1..Len(df) |-> Ewm(true_range, period, k)])

\* close.shift(1) is NaN on the first row, and max(axis=1) skips NaN: the
\* true range of the first row is high - low
_add_atr(df, period) ==
    LET tr(k) == IF k = 1 THEN df[k].high - df[k].low
                 ELSE Max3(df[k].high - df[k].low,
                           Abs(df[k].high - df[k - 1].close),
                           Abs(df[k].low - df[k - 1].close))
        true_range == [k \in 1..Len(df) |-> tr(k)]
    IN WithColumn(df, "atr", [k \in 1..Len(df) |-> Ewm(true_range, period, k)])

calculate_indicators(e, data_m1, data_m5, data_m15) ==
    [data_m15 |-> _add_ema(_add_ema(data_m15, e.ema_fast, "ema_fast"),
                           e.ema_slow, "ema_slow"),
     data_m5 |-> _add_vwap(_add_rsi(_add_ema(_add_ema(data_m5, e.ema_fast, "ema_fast"),
                                             e.ema_slow, "ema_slow"),
                                    e.rsi_period)),
     data_m1 |-> _add_atr(_add_stochastic(data_m1, e.stoch_k, e.stoch_d,
                                          e.stoch_slowing),
                          e.atr_period)]

----------------------------------------------------------------------------
(* A client calling SignalEngineBT.calculate_indicators on frames of bars  *)
(* bt holds the engine and the frames                                      *)

\* the most bars in a frame
MaxIndRows == 4

\* a bar of a frame; the vwap column is filled by _add_vwap
Bar(time, high, low, close_price, volume) ==
    [time |-> time, high |-> high, low |-> low, close |-> close_price,
     volume |-> volume, vwap |-> NaNFrac]

\* the bars at a time: wide, falling, rising and flat ones, with volume 0,
\* 1 or 2
IndBars(time) ==
    {Bar(time, 3, 1, 2, 1), Bar(time, 2, 1, 1, 2), Bar(time, 3, 2, 3, 1),
     Bar(time, 2, 2, 2, 0), Bar(time, 3, 1, 3, 2)}

\* the frames of n bars, one an hour from the hour start on
RECURSIVE IndFrames(_, _)
IndFrames(n, start) ==
    IF n = 0 THEN {<<>>}
    ELSE {Append(s, b) : s \in IndFrames(n - 1, start),
                         b \in IndBars(start + n - 1)}

\* SignalEngineBT(stoch_k=2, stoch_d=2, stoch_slowing=2)
IndEngine ==
    [NewSignalEngineBT EXCEPT !.stoch_k = 2, !.stoch_d = 2, !.stoch_slowing = 2]

\* frames from 21:00 or from 22:00 on: the bars from 00:00 on are on the
\* next date
InitIndicators ==
    /\ trades = <<>>
    /\ pf = DefaultPortfolio
    /\ \E n \in 0..MaxIndRows, start \in {21, 22} :
         \E df \in IndFrames(n, start) :
            bt = [signal_engine |-> IndEngine, bars |-> df,
                  data_m1 |-> <<>>, data_m5 |-> <<>>, data_m15 |-> <<>>]
    /\ bar = NoBar
    /\ pc = "indicators"
    /\ call = NoCall

\* data_m1, data_m5, data_m15 = signal_engine.calculate_indicators(bars,
\* bars, bars)
IndCalculate ==
    /\ pc = "indicators"
    /\ LET r == calculate_indicators(bt.signal_engine, bt.bars, bt.bars, bt.bars)
       IN bt' = [bt EXCEPT !.data_m1 = r.data_m1, !.data_m5 = r.data_m5,
                           !.data_m15 = r.data_m15]
    /\ call' = [NoCall EXCEPT !.op = "calculate_indicators"]
    /\ pc' = "calculated"
    /\ UNCHANGED <<trades, pf, bar>>

NextIndicators == IndCalculate

SpecIndicators == InitIndicators /\ [][NextIndicators]_vars

\* the bars of df up to row i
FirstRows(df, i) == SubSeq(df, 1, i)

\* the bars of df up to row i that are on the date of row i
RECURSIVE SameDateRows(_, _, _)
SameDateRows(df, i, j) ==
    IF j = 0 THEN <<>>
    ELSE IF DateOf(df[j].time) = DateOf(df[i].time)
    THEN Append(SameDateRows(df, i, j - 1), df[j])
    ELSE SameDateRows(df, i, j - 1)

----------------------------------------------------------------------------
(* core/signal_engine.py: the live SignalEngine, whose get_signal(symbol)  *)
(* reads the clock and keeps last_signal_time, a dict by symbol.  Time in  *)
(* seconds.  What get_indicator_values and the three analyses return is    *)
(* given with the call: None, or the trend, the confirmation and the entry *)

\* get_indicator_values returned None
NoValues == [none |-> TRUE]

\* dict.get(key, default)
DictGet(d, key, default) == IF key \in DOMAIN d THEN d[key] ELSE default

\* the SignalResult, and read: whether get_indicator_values was called
SignalResult(signal_type, m15_trend, m5_confirmed, m1_entry, reason, read) ==
    [signal_type |-> signal_type, m15_trend |-> m15_trend,
     m5_confirmed |-> m5_confirmed, m1_entry |-> m1_entry,
     reason |-> reason, read |-> read]

\* SignalEngine.get_signal with one cooldown for all the symbols
live_get_signal_shared_cooldown(e, symbol, current_time, values) ==
    LET last_signal == DictGet(e.last_signal_time, "EURUSD", 0)
    IN IF current_time - last_signal < 60
       THEN [engine |-> e,
             result |-> SignalResult("NONE", "NEUTRAL", FALSE, FALSE,
                                     "Cooldown active", FALSE)]
       ELSE IF values = NoValues
       THEN [engine |-> e,
             result |-> SignalResult("NONE", "NEUTRAL", FALSE, FALSE,
                                     "Cannot get indicator values", TRUE)]
       ELSE IF values.m15_trend = "NEUTRAL"
       THEN [engine |-> e,
             result |-> SignalResult("NONE", values.m15_trend, FALSE, FALSE,
                                     "No clear M15 trend", TRUE)]
       ELSE IF ~values.m5_confirmed
       THEN [engine |-> e,
             result |-> SignalResult("NONE", values.m15_trend, FALSE, FALSE,
                                     "M5 not confirmed", TRUE)]
       ELSE IF ~values.m1_entry
       THEN [engine |-> e,
             result |-> SignalResult("NONE", values.m15_trend, TRUE, FALSE,
                                     "M1 entry not valid", TRUE)]
       ELSE [engine |-> [e EXCEPT !.last_signal_time =
                            ("EURUSD" :> current_time) @@ @],
             result |-> SignalResult(IF values.m15_trend = "BULLISH"
                                     THEN "BUY" ELSE "SELL",
                                     values.m15_trend, TRUE, TRUE, "entry", TRUE)]

\* SignalEngine.get_signal(symbol), current_time being what
\* datetime.now().timestamp() returns
live_get_signal(e, symbol, current_time, values) ==
    LET last_signal == DictGet(e.last_signal_time, symbol, 0)
    IN IF current_time - last_signal < 60
       THEN [engine |-> e,
             result |-> SignalResult("NONE", "NEUTRAL", FALSE, FALSE,
                                     "Cooldown active", FALSE)]
       ELSE IF values = NoValues
       THEN [engine |-> e,
             result |-> SignalResult("NONE", "NEUTRAL", FALSE, FALSE,
                                     "Cannot get indicator values", TRUE)]
       ELSE IF values.m15_trend = "NEUTRAL"
       THEN [engine |-> e,
             result |-> SignalResult("NONE", values.m15_trend, FALSE, FALSE,
                                     "No clear M15 trend", TRUE)]
       ELSE IF ~values.m5_confirmed
       THEN [engine |-> e,
             result |-> SignalResult("NONE", values.m15_trend, FALSE, FALSE,
                                     "M5 not confirmed", TRUE)]
       ELSE IF ~values.m1_entry
       THEN [engine |-> e,
             result |-> SignalResult("NONE", values.m15_trend, TRUE, FALSE,
                                     "M1 entry not valid", TRUE)]
       ELSE [engine |-> [e EXCEPT !.last_signal_time =
                            (symbol :> current_time) @@ @],
             result |-> SignalResult(IF values.m15_trend = "BULLISH"
                                     THEN "BUY" ELSE "SELL",
                                     values.m15_trend, TRUE, TRUE, "entry", TRUE)]

----------------------------------------------------------------------------
(* A client calling get_signal of one live SignalEngine for two symbols,   *)
(* as the signal scanner does, at any pace.  bt holds the engine, bar.time *)
(* the clock; call.stats keeps, by symbol, the time of the last call that  *)
(* returned BUY or SELL (None when there was none)                         *)

\* the most calls of get_signal
MaxLiveCalls == 4

LiveSymbols == {"EURUSD", "GBPUSD"}

\* the clock at the start, in seconds
LiveStart == 1000

\* the seconds between one call and the next
LiveSteps == {0, 30, 59, 60}

\* what the indicators say: nothing, or a trend with or without the
\* confirmation and the entry
LiveValues ==
    {NoValues} \cup
    [m15_trend : {"BULLISH", "BEARISH", "NEUTRAL"}, m5_confirmed : BOOLEAN,
     m1_entry : BOOLEAN]

\* SignalEngine(config, mt5_connector)
InitLive ==
    /\ trades = <<>>
    /\ pf = DefaultPortfolio
    /\ bt = [last_signal_time |-> <<>>]
    /\ bar = [NoBar EXCEPT !.time = LiveStart]
    /\ pc = "scanner"
    /\ call = [NoCall EXCEPT !.stats = [s \in LiveSymbols |-> None]]

\* result = signal_engine.get_signal(symbol), step seconds after the call
\* before it
LiveGetSignal ==
    /\ pc = "scanner"
    /\ call.n < MaxLiveCalls
    /\ \E symbol \in LiveSymbols, step \in LiveSteps, values \in LiveValues :
         LET current_time == bar.time + step
             r == live_get_signal(bt, symbol, current_time, values)
         IN /\ bar' = [bar EXCEPT !.time = current_time]
            /\ bt' = r.engine
            /\ call' = [call EXCEPT
                          !.op = "get_signal", !.note = symbol,
                          !.time = current_time, !.n = @ + 1,
                          !.ret = r.result,
                          !.stats = IF r.result.signal_type # "NONE"
                                    THEN [@ EXCEPT ![symbol] = current_time]
                                    ELSE @]
    /\ UNCHANGED <<trades, pf, pc>>

NextLive == LiveGetSignal

SpecLive == InitLive /\ [][NextLive]_vars

\* the call of this step is for a symbol for which a call returned BUY or
\* SELL less than 60 seconds before
InCooldown ==
    /\ call.stats[call'.note] # None
    /\ call'.time - call.stats[call'.note] < 60

\* C39: a call of get_signal(s) less than 60 seconds after one for s that
\* returned BUY or SELL returns NONE with reason "Cooldown active" and reads
\* no indicators; a call that returns NONE leaves last_signal_time as it
\* was; and a call for s with no such call for s before it reads the
\* indicators, whatever the other symbol's calls returned
C39_CooldownPerSymbol ==
    /\ [][InCooldown => /\ call'.ret.signal_type = "NONE"
                        /\ call'.ret.reason = "Cooldown active"
                        /\ ~call'.ret.read]_vars
    /\ [][call'.ret.signal_type = "NONE" =>
              bt'.last_signal_time = bt.last_signal_time]_vars
    /\ [][~InCooldown => /\ call'.ret.reason # "Cooldown active"
                         /\ call'.ret.read]_vars

\* a call for one symbol has returned BUY or SELL while the other symbol
\* was in its cooldown
C39_Witness ==
    /\ call.op = "get_signal"
    /\ call.ret.signal_type # "NONE"
    /\ \E other \in LiveSymbols \ {call.note} :
          /\ call.stats[other] # None
          /\ call.time - call.stats[other] < 60
          /\ call.time > call.stats[other]

====
